---- MODULE Spec2Model ----
(***************************************************************************)
(* Semantic image cache of the narrative-game backend                      *)
(* (fastApiServer/app/image_service.py and the generate-image endpoint of  *)
(* fastApiServer/app/main.py).                                             *)
(*                                                                         *)
(* Every request runs generate_scene_image -> generate_image_with_cache.   *)
(* Requests share two pieces of durable state: the index document          *)
(* cache_metadata.json and the asset directory image_cache/.  Each I/O     *)
(* operation of a request (provider call, file read, file write, exists    *)
(* check) is one step, so requests interleave between them.                *)
(*                                                                         *)
(* Numbers: similarities are exact rationals [num, den]; embeddings are    *)
(* integer vectors whose norm is an integer.  Strings with structure are   *)
(* records: a data URL is [prefix, body], body a sequence of base64        *)
(* character codes (0..63 data, 64 '=', 65 any non-alphabet character).    *)
(*                                                                         *)
(* Further down: get_cache_status, the file-grain view of the index        *)
(* document, cosine_similarity, search_cache and the asset round trip on   *)
(* their own inputs, the game endpoints start_game and continue_game with  *)
(* the narrative provider of fastApiServer/app/ai_service.py.              *)
(***************************************************************************)
EXTENDS Integers, Sequences, FiniteSets, TLC

(***************************************************************************)
(* Bounds                                                                  *)
(***************************************************************************)
\* requests in flight at once; requests of a sequential run, of a
\* concurrent run, of a fair run and of a run over a damaged index; saves
\* of a file-grain run
NumProcs == 2
MaxCalls == 3
MaxRaceCalls == 2
MaxFairCalls == 2
MaxCorruptCalls == 1
MaxSaves == 3
\* characters of a payload on its way through an asset file
TripLen == 4
\* components of a vector handed to cosine_similarity
SimLen == 2
\* items of a list handed to search_cache
ScanLen == 3

Procs == 1..NumProcs
ImageIds == 1..MaxCalls

(***************************************************************************)
(* Program constants                                                       *)
(***************************************************************************)
\* SIMILARITY_THRESHOLD = 0.85 = 17/20
SIMILARITY_THRESHOLD == [num |-> 17, den |-> 20]

JpegPrefix == "data:image/jpeg;base64,"
PngPrefix == "data:image/png;base64,"
NoPrefix == ""

\* base64 character code of '='
PadCode == 64

\* 1024 * 1024 bytes
MiB == 1048576

(***************************************************************************)
(* Request inputs and provider answers                                     *)
(***************************************************************************)
\* (art_description, style_notes) of the requests
Queries == { <<"throne", "">>, <<"throne", "dark">>, <<"hall", "">> }

\* the prompt generate_image sends to the image provider
Prompt(art_description, style_notes) ==
    (IF style_notes # "" THEN art_description \o ", " \o style_notes
     ELSE art_description)
       \o ", Game of Thrones style, medieval fantasy, cinematic, detailed, "
       \o "atmospheric"

SearchText_prompt(art_description, style_notes) ==
    Prompt(art_description, style_notes)

\* search_text = art_description [+ " " + style_notes]
SearchText(art_description, style_notes) ==
    IF style_notes # "" THEN art_description \o " " \o style_notes
    ELSE art_description

\* The embedding provider is a function of the text.  The vectors have
\* norm 20, and cos(throne, throne dark) = 17/20 exactly.
EmbeddingOf(text) ==
    CASE text = "throne"      -> <<20, 0, 0, 0, 0>>
      [] text = "throne dark" -> <<17, 10, 3, 1, 1>>
      [] text = "hall"        -> <<0, 20, 0, 0, 0>>
      [] OTHER                -> <<0, 0, 0, 0, 20>>

\* Payload the image provider answers with: "QUJD"
Payloads == { <<16, 20, 9, 3>> }

\* Answers of the image generation provider, as generate_image returns them
ProviderResults ==
    [kind : {"base64"}, body : Payloads]
    \cup { [kind |-> "empty", body |-> <<>>] }

NoneUrl == [prefix |-> "None", body |-> <<>>]

(***************************************************************************)
(* cosine_similarity                                                       *)
(***************************************************************************)
RECURSIVE Dot(_, _)
Dot(a, b) ==
    IF a = <<>> THEN 0 ELSE a[1] * b[1] + Dot(Tail(a), Tail(b))

Norm(a) ==
    LET s == Dot(a, a) IN CHOOSE n \in 0..s : n * n = s

\* np.dot of two 1-D arrays of different sizes raises ValueError (shapes
\* not aligned); two empty arrays have the same size and give 0.0
DotRaises(vec1, vec2) == Len(vec1) # Len(vec2)

Zero == [num |-> 0, den |-> 1]

cosine_similarity_unguarded(vec1, vec2) ==
    [num |-> Dot(vec1, vec2), den |-> Norm(vec1) * Norm(vec2)]

cosine_similarity(vec1, vec2) ==
    LET dot_product == Dot(vec1, vec2)
        norm1 == Norm(vec1)
        norm2 == Norm(vec2)
    IN IF norm1 = 0 \/ norm2 = 0 THEN Zero
       ELSE [num |-> dot_product, den |-> norm1 * norm2]

\* a > b and a >= b on rationals with positive denominators
Gt(a, b) == a.num * b.den > b.num * a.den
Ge(a, b) == a.num * b.den >= b.num * a.den

(***************************************************************************)
(* search_cache                                                            *)
(***************************************************************************)
NoneEntry == [none |-> TRUE]

\* an item of the loaded list is a dict (an entry, whole or not) or some
\* other JSON value, [scalar |-> v]
IsDict(item) == "scalar" \notin DOMAIN item

\* cached_item.get(key): None reads as the empty sequence
Get(item, key) == IF key \in DOMAIN item THEN item[key] ELSE <<>>

\* an item that is not a dict has no .get (AttributeError) and an embedding
\* of another size than the query's stops np.dot (ValueError): raised is set
RECURSIVE Scan(_, _, _, _, _)
Scan_last(query_embedding, cache_metadata, i, best_match, max_similarity) ==
    IF i > Len(cache_metadata)
    THEN [best_match |-> best_match, max_similarity |-> max_similarity,
          raised |-> FALSE]
    ELSE LET similarity ==
                 cosine_similarity(query_embedding,
                                   cache_metadata[i].embedding)
         IN IF Ge(similarity, max_similarity)
            THEN Scan(query_embedding, cache_metadata, i + 1,
                      cache_metadata[i], similarity)
            ELSE Scan(query_embedding, cache_metadata, i + 1,
                      best_match, max_similarity)

Scan(query_embedding, cache_metadata, i, best_match, max_similarity) ==
    IF i > Len(cache_metadata)
    THEN [best_match |-> best_match, max_similarity |-> max_similarity,
          raised |-> FALSE]
    ELSE IF ~IsDict(cache_metadata[i])
    THEN [best_match |-> best_match, max_similarity |-> max_similarity,
          raised |-> TRUE]
    ELSE LET cached_item == cache_metadata[i]
             cached_embedding == Get(cached_item, "embedding")
         IN IF cached_embedding = <<>>
            THEN Scan(query_embedding, cache_metadata, i + 1,
                      best_match, max_similarity)
            ELSE IF DotRaises(query_embedding, cached_embedding)
            THEN [best_match |-> best_match,
                  max_similarity |-> max_similarity, raised |-> TRUE]
            ELSE LET similarity ==
                         cosine_similarity(query_embedding, cached_embedding)
                 IN IF Gt(similarity, max_similarity)
                    THEN Scan(query_embedding, cache_metadata, i + 1,
                              cached_item, similarity)
                    ELSE Scan(query_embedding, cache_metadata, i + 1,
                              best_match, max_similarity)

search_cache_from_below(query_embedding, cache_metadata) ==
    Scan(query_embedding, cache_metadata, 1, NoneEntry,
         [num |-> -2, den |-> 1])

\* max_similarity = 0.0, best_match = None, then the loop
search_cache(query_embedding, cache_metadata) ==
    Scan(query_embedding, cache_metadata, 1, NoneEntry, Zero)

(***************************************************************************)
(* base64 (binascii.a2b_base64 in its default, non-strict mode, and        *)
(* b2a_base64)                                                             *)
(***************************************************************************)
RECURSIVE a2b_base64(_, _, _, _, _, _)
a2b_base64(s, i, quad_pos, leftchar, pads, out) ==
    IF i > Len(s)
    THEN IF quad_pos = 0 THEN [ok |-> TRUE, bytes |-> out]
         ELSE [ok |-> FALSE, bytes |-> <<>>]
    ELSE LET c == s[i] IN
         IF c = PadCode
         THEN IF quad_pos >= 2 /\ quad_pos + pads + 1 >= 4
              THEN [ok |-> TRUE, bytes |-> out]
              ELSE a2b_base64(s, i + 1, quad_pos, leftchar,
                              IF quad_pos >= 2 THEN pads + 1 ELSE pads, out)
         ELSE IF c > 63
         THEN a2b_base64(s, i + 1, quad_pos, leftchar, pads, out)
         ELSE CASE quad_pos = 0 ->
                     a2b_base64(s, i + 1, 1, c, 0, out)
                [] quad_pos = 1 ->
                     a2b_base64(s, i + 1, 2, c % 16, 0,
                                Append(out, leftchar * 4 + c \div 16))
                [] quad_pos = 2 ->
                     a2b_base64(s, i + 1, 3, c % 4, 0,
                                Append(out, leftchar * 16 + c \div 4))
                [] OTHER ->
                     a2b_base64(s, i + 1, 0, 0, 0,
                                Append(out, leftchar * 64 + c))

b64decode(s) == a2b_base64(s, 1, 0, 0, 0, <<>>)

RECURSIVE b64encode(_)
b64encode(bytes) ==
    CASE Len(bytes) = 0 -> <<>>
      [] Len(bytes) = 1 ->
           <<bytes[1] \div 4, (bytes[1] % 4) * 16, PadCode, PadCode>>
      [] Len(bytes) = 2 ->
           <<bytes[1] \div 4,
             (bytes[1] % 4) * 16 + bytes[2] \div 16,
             (bytes[2] % 16) * 4,
             PadCode>>
      [] OTHER ->
           <<bytes[1] \div 4,
             (bytes[1] % 4) * 16 + bytes[2] \div 16,
             (bytes[2] % 16) * 4 + bytes[3] \div 64,
             bytes[3] % 64>>
           \o b64encode(SubSeq(bytes, 4, Len(bytes)))

(***************************************************************************)
(* _extract_image_url_from_result                                          *)
(***************************************************************************)
\* The modelled answers are the "data" list with a "base64" item, the
\* "data" list with a "url" item, and an answer with no image in it.
extract_image_url_from_result(result) ==
    CASE result.kind = "base64" -> [prefix |-> JpegPrefix, body |-> result.body]
      [] result.kind = "url"    -> [prefix |-> NoPrefix, body |-> result.body]
      [] OTHER                  -> NoneUrl

Falsy_never(url) == FALSE

\* `if not image_url`
Falsy(url) == url = NoneUrl \/ (url.prefix = NoPrefix /\ url.body = <<>>)

(***************************************************************************)
(* load_image_from_cache, on the bytes of a file that was read             *)
(***************************************************************************)
load_image_from_cache_raw(image_bytes) ==
    [prefix |-> PngPrefix, body |-> image_bytes]

load_image_from_cache(image_bytes) ==
    [prefix |-> PngPrefix, body |-> b64encode(image_bytes)]

(***************************************************************************)
(* Index document and asset files                                          *)
(***************************************************************************)
\* The document is a sequence of tokens: "[", one token per entry, "]".
LBracket == [tok |-> "["]
RBracket == [tok |-> "]"]

LBrace == [tok |-> "{"]
RBrace == [tok |-> "}"]
\* text that is no JSON, and bytes that are no UTF-8
Garbage == [tok |-> "garbage"]
InvalidUtf8 == [tok |-> "0xff"]

IsEntry(t) == DOMAIN t = {"id", "text", "embedding", "image_path"}

\* a JSON value that stands as an array item: anything but a piece of syntax
IsValue(t) == "tok" \notin DOMAIN t

\* json.dump(metadata, f)
Dump(metadata) == <<LBracket>> \o metadata \o <<RBracket>>

\* json.load(f) gives a list: the whole text is one array of JSON values
WellFormed(data) ==
    /\ Len(data) >= 2
    /\ data[1] = LBracket
    /\ data[Len(data)] = RBracket
    /\ \A i \in 2..(Len(data) - 1) : IsValue(data[i])

\* f.read() of a text-mode file decodes it: bytes that are no UTF-8 raise
\* UnicodeDecodeError, which `except (json.JSONDecodeError, IOError)` lets
\* through
LoadRaises(file, io_ok) ==
    /\ file.exists
    /\ io_ok
    /\ \E i \in 1..Len(file.data) : file.data[i] = InvalidUtf8

\* what load_cache_metadata returns when it returns: [] for an absent file,
\* an IOError, a JSONDecodeError and a document that is no list (an object,
\* say); else the list as parsed, whatever its items are
load_cache_metadata(file, io_ok) ==
    IF ~file.exists THEN <<>>
    ELSE IF ~io_ok THEN <<>>
    ELSE IF WellFormed(file.data) THEN SubSeq(file.data, 2, Len(file.data) - 1)
    ELSE <<>>

\* save_cache_metadata with the whole write taken as one step; an IOError
\* is logged and swallowed.  open(METADATA_FILE, 'w') truncates: a failed
\* open leaves the file as it was, a write that fails after the open leaves
\* the truncated file.
SaveOutcomes == {"ok", "open_fails", "write_fails"}

save_cache_metadata(file, metadata, io) ==
    CASE io = "ok"         -> [exists |-> TRUE, data |-> Dump(metadata)]
      [] io = "open_fails" -> file
      [] OTHER             -> [exists |-> TRUE, data |-> <<>>]

NoFile == [exists |-> FALSE, bytes |-> <<>>]

\* CACHE_DIR / f"img_{image_id}.png", relative to project_root
ImagePath(image_id) == <<"image_cache", image_id>>
\* project_root / image_path: the file of the directory a path names
FileOf(image_path) == image_path[2]

(***************************************************************************)
(* State                                                                   *)
(***************************************************************************)
VARIABLES
    metadata_file,    \* cache_metadata.json: [exists, data]
    cache_dir,        \* image_cache/: image id -> [exists, bytes]
    uuid_count,       \* ids handed out by uuid.uuid4()
    calls,            \* requests started so far
    pc,               \* position of each request
    frame,            \* local variables of generate_image_with_cache
    last_call,        \* the request that ended last: outcome and response
    created,          \* the entries built by step 6 so far
    appended,         \* ids of the entries whose step-6 save succeeded
    pruned,           \* the entries a drift repair took out of the index
    deleted,          \* the asset files deleted from outside the program
    writer,           \* save_cache_metadata in progress: [open, buf, pos]
    observed,         \* what the last load_cache_metadata of a thread read
    documents,        \* the documents save_cache_metadata was asked to write
    status,           \* the last answer of get_cache_status
    trip,             \* a string on its way through save and load of an asset
    sim,              \* a call of cosine_similarity: arguments and outcome
    game,             \* the game session row, the answer to the last game call
    scan              \* search_cache harness: the call and what it returned

vars == <<metadata_file, cache_dir, uuid_count, calls, pc, frame,
          last_call, created, appended, pruned, deleted,
          writer, observed, documents, status, trip, sim, game, scan>>

\* what the requests for an image leave alone
filevars == <<writer, observed, documents, status, trip, sim, game, scan>>

NoRet == [kind |-> "running", image_url |-> NoneUrl, cached |-> FALSE,
          error |-> ""]
NoResponse == [image_url |-> NoneUrl, error |-> "pending"]
\* embedded: the embedding was obtained; generate: calls of the image
\* provider; generated: it answered with an image; pruned: the drift-repair
\* branch was taken; index_saves, asset_reads, asset_writes: calls of
\* save_cache_metadata, load_image_from_cache, save_image_to_cache;
\* asset: the file served or written; fault_free: no provider or I/O
\* failure so far; degraded: the index document was absent or was not an
\* array of whole entries when the request loaded it
NoEffects == [embedded |-> FALSE, generate |-> 0, generated |-> FALSE,
              pruned |-> FALSE, index_saves |-> 0, asset_reads |-> 0,
              asset_writes |-> 0, asset |-> 0, fault_free |-> TRUE,
              degraded |-> FALSE]

EmptyFrame ==
    [art_description |-> "", style_notes |-> "", search_text |-> "",
     query_embedding |-> <<>>, cache_metadata |-> <<>>,
     best_match |-> NoneEntry, max_similarity |-> Zero,
     image_url |-> NoneUrl, image_id |-> 0, prompt |-> "",
     effects |-> NoEffects]

NoCall == [text |-> "", ret |-> NoRet, response |-> NoResponse,
           effects |-> NoEffects, clean |-> FALSE]
NoStatus == [answered |-> FALSE, raised |-> FALSE, cache_entries |-> 0,
             image_files |-> 0, total_size |-> 0,
             metadata_file_exists |-> FALSE]
NoTrip == [stage |-> "none", s |-> NoneUrl, bytes |-> <<>>,
           loaded |-> NoneUrl]
NoSim == [stage |-> "none", vec1 |-> <<>>, vec2 |-> <<>>, kind |-> "",
          value |-> Zero]
NoScan == [stage |-> "none", query_embedding |-> <<>>,
           cache_metadata |-> <<>>, best_match |-> NoneEntry,
           max_similarity |-> Zero, raised |-> FALSE]
\* ned_status of a game state: a dict with a location, or some other value
InLocation(location) == [dict |-> TRUE, location |-> location]
NotADict == [dict |-> FALSE, location |-> ""]

\* the row of a game session (session_id, game_state, current_scene_setting,
\* game_status) before start_game has made it; of game_state: turn_number,
\* previous_turns (the "turn" of each item), characters, ned_status
NoSession ==
    [exists |-> FALSE,
     game_state |-> [turn_number |-> 0, previous_turns |-> <<>>,
                     characters |-> "default",
                     ned_status |-> InLocation("Red Keep")],
     current_scene_setting |-> "", game_status |-> ""]

\* what a game endpoint answered: HTTP status code, and of a
\* ContinueGameResponse game_over, game_status and the number of choices;
\* session_id: the kind of id the call named; consulted: the narrative
\* provider was called; tick tells one call from the next
NoAnswer == [code |-> 0, game_over |-> FALSE, game_status |-> "",
             choices |-> 0, session_id |-> "", consulted |-> FALSE,
             tick |-> 0]

\* succeeded: the continue_game calls answered with 200 so far
NoGame == [session |-> NoSession, answer |-> NoAnswer, succeeded |-> 0]

NoWriter == [open |-> FALSE, buf |-> <<>>, pos |-> 0]
NotObserved == [seen |-> FALSE, exists |-> FALSE, data |-> <<>>,
                entries |-> <<>>]

InitCache ==
    /\ metadata_file = [exists |-> FALSE, data |-> <<>>]
    /\ cache_dir = [i \in ImageIds |-> NoFile]
    /\ uuid_count = 0
    /\ calls = 0
    /\ pc = [p \in Procs |-> "idle"]
    /\ frame = [p \in Procs |-> EmptyFrame]
    /\ last_call = NoCall
    /\ created = {}
    /\ appended = {}
    /\ pruned = {}
    /\ deleted = {}
    /\ writer = [p \in Procs |-> NoWriter]
    /\ observed = [p \in Procs |-> NotObserved]
    /\ documents = {}
    /\ status = NoStatus

Init ==
    InitCache /\ trip = NoTrip /\ sim = NoSim /\ game = NoGame /\ scan = NoScan

(***************************************************************************)
(* generate_scene_image: the response built from the outcome of            *)
(* generate_image_with_cache                                               *)
(***************************************************************************)
generate_scene_image_unchecked(result) ==
    IF result.kind = "raise"
    THEN [image_url |-> NoneUrl, error |-> result.error]
    ELSE [image_url |-> result.image_url, error |-> "None"]

generate_scene_image(result) ==
    IF result.kind = "dict"
    THEN IF Falsy(result.image_url)
         THEN [image_url |-> NoneUrl,
               error |-> "Could not generate or retrieve image"]
         ELSE [image_url |-> result.image_url, error |-> "None"]
    ELSE IF result.kind = "raise"
    THEN [image_url |-> NoneUrl, error |-> result.error]
    \* a str or None has no .get: AttributeError, caught by the endpoint
    ELSE [image_url |-> NoneUrl,
          error |-> "object has no attribute 'get'"]

Raise(message) ==
    [kind |-> "raise", image_url |-> NoneUrl, cached |-> FALSE,
     error |-> message]

Return(kind, url, cached) ==
    [kind |-> kind, image_url |-> url, cached |-> cached, error |-> ""]

\* generate_image_with_cache returns or raises; the endpoint answers and
\* the request's frame is gone
Finish(p, result, eff) ==
    /\ pc' = [pc EXCEPT ![p] = "idle"]
    /\ frame' = [frame EXCEPT ![p] = EmptyFrame]
    /\ last_call' = [text |-> frame[p].search_text, ret |-> result,
                     response |-> generate_scene_image(result),
                     effects |-> eff,
                     clean |-> (eff.asset # 0 => cache_dir[eff.asset].exists)]
    /\ UNCHANGED filevars

\* the request goes on
Goto(p, label, f, eff) ==
    /\ pc' = [pc EXCEPT ![p] = label]
    /\ frame' = [frame EXCEPT ![p] = [f EXCEPT !.effects = eff]]
    /\ UNCHANGED <<last_call, filevars>>

(***************************************************************************)
(* generate_image_with_cache, one action per I/O operation                 *)
(***************************************************************************)
Start(p, d, s) ==
    /\ pc[p] = "idle"
    /\ calls < MaxCalls
    /\ calls' = calls + 1
    /\ pc' = [pc EXCEPT ![p] = "embed"]
    /\ frame' = [frame EXCEPT ![p] =
                   [EmptyFrame EXCEPT !.art_description = d,
                                      !.style_notes = s,
                                      !.search_text = SearchText(d, s)]]
    /\ UNCHANGED <<metadata_file, cache_dir, uuid_count, last_call, created,
                   appended, pruned, deleted, filevars>>

\* Step 1: get_embedding(search_text); on failure fall back
GetEmbedding(p, ok) ==
    /\ pc[p] = "embed"
    /\ IF ok
       THEN Goto(p, "load",
                 [frame[p] EXCEPT !.query_embedding =
                                      EmbeddingOf(frame[p].search_text)],
                 [frame[p].effects EXCEPT !.embedded = TRUE])
       ELSE Goto(p, "fallback", frame[p],
                 [frame[p].effects EXCEPT !.fault_free = FALSE])
    /\ UNCHANGED <<metadata_file, cache_dir, uuid_count, calls, created,
                   appended, pruned, deleted>>

\* what the except-branch of step 1 returns:
\* `return _extract_image_url_from_result(result)`, the extracted string
\* (or None), not a dict
FallbackResult(url) ==
    Return(IF url = NoneUrl THEN "NoneType" ELSE "str", url, FALSE)

\* except-branch of step 1: generate_image outside any try
Fallback(p, ok, result) ==
    /\ pc[p] = "fallback"
    /\ LET eff == [frame[p].effects EXCEPT !.generate = @ + 1]
           url == extract_image_url_from_result(result)
       IN IF ok
          THEN Finish(p, FallbackResult(url),
                      [eff EXCEPT !.generated = (url # NoneUrl)])
          ELSE Finish(p, Raise("Failed to generate image"), eff)
    /\ UNCHANGED <<metadata_file, cache_dir, uuid_count, calls, created,
                   appended, pruned, deleted>>

IsHit_strict(best, similarity) ==
    best # NoneEntry /\ Gt(similarity, SIMILARITY_THRESHOLD)

\* Step 4: `if best_match and max_similarity >= SIMILARITY_THRESHOLD`
IsHit(best, similarity) ==
    best # NoneEntry /\ Ge(similarity, SIMILARITY_THRESHOLD)

\* the document is an array of whole entries
ExpectedShape(file) ==
    /\ file.exists
    /\ WellFormed(file.data)
    /\ \A i \in 2..(Len(file.data) - 1) : IsEntry(file.data[i])

\* Steps 2-4: load_cache_metadata, search_cache, hit decision; neither call
\* is inside a try, what they raise ends the request
LoadAndSearch(p, io_ok) ==
    /\ pc[p] = "load"
    /\ LET loaded == load_cache_metadata(metadata_file, io_ok)
           found == search_cache(frame[p].query_embedding, loaded)
           eff == [frame[p].effects EXCEPT
                      !.fault_free = @ /\ (io_ok \/ ~metadata_file.exists),
                      !.degraded = ~ExpectedShape(metadata_file)]
       IN IF LoadRaises(metadata_file, io_ok)
          THEN Finish(p, Raise("UnicodeDecodeError"), eff)
          ELSE IF found.raised
          THEN Finish(p, Raise("AttributeError"), eff)
          ELSE Goto(p,
                    IF IsHit(found.best_match, found.max_similarity)
                    THEN "verify" ELSE "generate",
                    [frame[p] EXCEPT !.cache_metadata = loaded,
                                     !.best_match = found.best_match,
                                     !.max_similarity = found.max_similarity],
                    eff)
    /\ UNCHANGED <<metadata_file, cache_dir, uuid_count, calls, created,
                   appended, pruned, deleted>>

\* verify_cache_entry(best_match): image_path.exists(); without an
\* "image_path" the path is project_root itself, which exists
verify_cache_entry(cached_item, dir) ==
    IF "image_path" \in DOMAIN cached_item
    THEN dir[FileOf(cached_item.image_path)].exists
    ELSE TRUE

VerifyCacheEntry(p) ==
    /\ pc[p] = "verify"
    /\ Goto(p,
            IF verify_cache_entry(frame[p].best_match, cache_dir)
            THEN "read" ELSE "prune",
            frame[p], frame[p].effects)
    /\ UNCHANGED <<metadata_file, cache_dir, uuid_count, calls, created,
                   appended, pruned, deleted>>

\* best_match["image_path"] (a KeyError there is outside the try), then
\* load_image_from_cache(image_path); a failure of the read (the file is
\* gone by now, or open/read fails) falls through to step 5
ReadImage(p, io_ok) ==
    /\ pc[p] = "read"
    /\ IF "image_path" \notin DOMAIN frame[p].best_match
       THEN Finish(p, Raise("KeyError"), frame[p].effects)
       ELSE LET id == FileOf(frame[p].best_match.image_path)
                file == cache_dir[id]
                eff == [frame[p].effects EXCEPT !.asset_reads = @ + 1]
            IN IF file.exists /\ io_ok
               THEN Finish(p, Return("dict",
                                     load_image_from_cache(file.bytes), TRUE),
                           [eff EXCEPT !.asset = id])
               ELSE Goto(p, "generate", frame[p],
                         [eff EXCEPT !.fault_free = FALSE])
    /\ UNCHANGED <<metadata_file, cache_dir, uuid_count, calls, created,
                   appended, pruned, deleted>>

\* [item for item in cache_metadata if item.get("id") != best_match.get("id")]
RemoveById_none(metadata, id) == metadata

RemoveById_all(metadata, id) == <<>>

RemoveById_blank(metadata, id) ==
    [i \in DOMAIN metadata |->
        IF metadata[i].id = id
        THEN [metadata[i] EXCEPT !.embedding = <<>>]
        ELSE metadata[i]]

RemoveById(metadata, id) ==
    SelectSeq(metadata, LAMBDA item : item.id # id)

PruneEntry_unsaved(p, io) ==
    /\ pc[p] = "prune"
    /\ Goto(p, "generate",
            [frame[p] EXCEPT !.cache_metadata =
                RemoveById(frame[p].cache_metadata, frame[p].best_match.id)],
            [frame[p].effects EXCEPT !.pruned = TRUE, !.index_saves = @ + 1])
    /\ UNCHANGED <<metadata_file, cache_dir, uuid_count, calls, created,
                   appended, pruned, deleted>>

\* else-branch of step 4: drop the entry, save the pruned index
PruneEntry(p, io) ==
    /\ pc[p] = "prune"
    /\ LET remaining == RemoveById(frame[p].cache_metadata,
                                   frame[p].best_match.id)
       IN /\ metadata_file' =
                save_cache_metadata(metadata_file, remaining, io)
          /\ Goto(p, "generate",
                  [frame[p] EXCEPT !.cache_metadata = remaining],
                  [frame[p].effects EXCEPT !.pruned = TRUE,
                                     !.index_saves = @ + 1,
                                     !.fault_free = @ /\ (io = "ok")])
    /\ pruned' = IF io = "ok" THEN pruned \cup {frame[p].best_match}
                 ELSE pruned
    /\ UNCHANGED <<cache_dir, uuid_count, calls, created, appended,
                   deleted>>

\* Step 5: generate_image and _extract_image_url_from_result
GenerateImage(p, ok, result) ==
    /\ pc[p] = "generate"
    /\ LET eff == [frame[p].effects EXCEPT !.generate = @ + 1]
           url == extract_image_url_from_result(result)
           failed == [eff EXCEPT !.fault_free = FALSE]
       IN IF ~ok
          THEN Finish(p, Raise("Failed to generate image"), failed)
          ELSE IF Falsy(url)
          THEN Finish(p, Raise("Failed to extract image URL"), failed)
          ELSE Goto(p, "store",
                    [frame[p] EXCEPT
                        !.image_url = url,
                        !.prompt = Prompt(frame[p].art_description,
                                          frame[p].style_notes)],
                    [eff EXCEPT !.generated = TRUE])
    /\ UNCHANGED <<metadata_file, cache_dir, uuid_count, calls, created,
                   appended, pruned, deleted>>

\* base64_data: the part after the comma of a data URL, else the string
Base64Data(url) == url.body

StoreOutcomes == {"ok", "fails"}

StoreImage_swallow(p, io) ==
    /\ pc[p] = "store"
    /\ LET id == uuid_count + 1
           decoded == b64decode(Base64Data(frame[p].image_url))
           eff == [frame[p].effects EXCEPT !.asset_writes = @ + 1]
       IN /\ uuid_count' = id
          /\ cache_dir' = IF decoded.ok /\ io = "ok"
                          THEN [cache_dir EXCEPT ![id] =
                                   [exists |-> TRUE, bytes |-> decoded.bytes]]
                          ELSE cache_dir
          /\ Goto(p, "append", [frame[p] EXCEPT !.image_id = id],
                  [eff EXCEPT !.asset = id])
    /\ UNCHANGED <<metadata_file, calls, created, appended, pruned, deleted>>

StoreImage_deferred(p, io) ==
    /\ pc[p] = "store"
    /\ uuid_count' = uuid_count + 1
    /\ Goto(p, "append", [frame[p] EXCEPT !.image_id = uuid_count + 1],
            [frame[p].effects EXCEPT !.asset = uuid_count + 1])
    /\ UNCHANGED <<metadata_file, cache_dir, calls, created, appended, pruned,
                   deleted>>

\* Step 6, first half: uuid4, save_image_to_cache
StoreImage(p, io) ==
    /\ pc[p] = "store"
    /\ LET id == uuid_count + 1
           decoded == b64decode(Base64Data(frame[p].image_url))
           eff == [frame[p].effects EXCEPT !.asset_writes = @ + 1]
           failed == Raise("Failed to save image to cache")
           faulty == [eff EXCEPT !.fault_free = FALSE]
       IN /\ uuid_count' = id
          /\ IF ~decoded.ok
             THEN /\ Finish(p, failed, faulty)
                  /\ UNCHANGED cache_dir
             ELSE IF io = "ok"
             THEN /\ cache_dir' = [cache_dir EXCEPT ![id] =
                         [exists |-> TRUE, bytes |-> decoded.bytes]]
                  /\ Goto(p, "append",
                          [frame[p] EXCEPT !.image_id = id],
                          [eff EXCEPT !.asset = id])
             ELSE /\ Finish(p, failed, faulty)
                  /\ UNCHANGED cache_dir
    /\ UNCHANGED <<metadata_file, calls, created, appended, pruned, deleted>>

NewEntry_first_id(f) ==
    [id |-> 1, text |-> f.search_text,
     embedding |-> f.query_embedding,
     image_path |-> ImagePath(f.image_id)]

NewEntry_description(f) ==
    [id |-> f.image_id, text |-> f.art_description,
     embedding |-> f.query_embedding,
     image_path |-> ImagePath(f.image_id)]

NewEntry(f) ==
    [id |-> f.image_id, text |-> f.search_text,
     embedding |-> f.query_embedding,
     image_path |-> ImagePath(f.image_id)]

AppendEntry_locked(p, io) ==
    /\ pc[p] = "append"
    /\ \A q \in Procs \ {p} : pc[q] \notin {"embed", "fallback", "generate"}
    /\ LET extended == Append(frame[p].cache_metadata, NewEntry(frame[p]))
       IN /\ metadata_file' = save_cache_metadata(metadata_file, extended, io)
          /\ Finish(p, Return("dict", frame[p].image_url, FALSE),
                    [frame[p].effects EXCEPT !.index_saves = @ + 1,
                                       !.fault_free = @ /\ (io = "ok")])
    /\ created' = created \cup {NewEntry(frame[p])}
    /\ appended' = IF io = "ok" THEN appended \cup {frame[p].image_id}
                   ELSE appended
    /\ UNCHANGED <<cache_dir, uuid_count, calls, pruned, deleted>>

\* Step 6, second half: append the entry, save the index, return
AppendEntry(p, io) ==
    /\ pc[p] = "append"
    /\ LET extended == Append(frame[p].cache_metadata, NewEntry(frame[p]))
       IN /\ metadata_file' = save_cache_metadata(metadata_file, extended, io)
          /\ Finish(p, Return("dict", frame[p].image_url, FALSE),
                    [frame[p].effects EXCEPT !.index_saves = @ + 1,
                                       !.fault_free = @ /\ (io = "ok")])
    /\ created' = created \cup {NewEntry(frame[p])}
    /\ appended' = IF io = "ok" THEN appended \cup {frame[p].image_id}
                   ELSE appended
    /\ UNCHANGED <<cache_dir, uuid_count, calls, pruned, deleted>>

(***************************************************************************)
(* Out-of-band events on the asset directory                               *)
(***************************************************************************)
DeleteAsset(i) ==
    /\ cache_dir[i].exists
    /\ cache_dir' = [cache_dir EXCEPT ![i] = NoFile]
    /\ last_call' = [last_call EXCEPT !.clean = FALSE]
    /\ deleted' = deleted \cup {i}
    /\ UNCHANGED <<metadata_file, uuid_count, calls, pc, frame, created,
                   appended, pruned, filevars>>

\* an entry of an index put back from a copy: its asset is not there, and
\* its id is one uuid4 does not draw in these runs
RestoredEntry ==
    [id |-> MaxCalls, text |-> "throne", embedding |-> EmbeddingOf("throne"),
     image_path |-> ImagePath(MaxCalls)]

\* the index document is edited or damaged from outside the program
CorruptDocuments ==
    { Dump(<<RestoredEntry>>),
      <<Garbage>>,
      <<InvalidUtf8>>,
      <<LBrace, RBrace>>,
      Dump(<<[scalar |-> 1]>>),
      Dump(<<[id |-> 0, text |-> "throne"]>>),
      Dump(<<[id |-> 0, text |-> "throne",
              embedding |-> EmbeddingOf("throne")]>>) }

CorruptIndex(doc) ==
    /\ metadata_file # [exists |-> TRUE, data |-> doc]
    /\ metadata_file' = [exists |-> TRUE, data |-> doc]
    /\ last_call' = [last_call EXCEPT !.clean = FALSE]
    /\ UNCHANGED <<cache_dir, uuid_count, calls, pc, frame, created, appended,
                   pruned, deleted, filevars>>

(***************************************************************************)
(* get_cache_status (GET /api/cache/status)                                *)
(***************************************************************************)
\* total_size: the sum of file.stat().st_size over img_*.png
RECURSIVE TotalSize(_, _)
TotalSize(dir, ids) ==
    IF ids = {} THEN 0
    ELSE LET i == CHOOSE j \in ids : TRUE
         IN (IF dir[i].exists THEN Len(dir[i].bytes) ELSE 0)
               + TotalSize(dir, ids \ {i})

\* round(total_size / (1024 * 1024), 2), in hundredths of a megabyte
RoundMb(total_size) == (200 * total_size + MiB) \div (2 * MiB)

GetCacheStatus_rewrites(io_ok) ==
    /\ status' =
          [answered |-> TRUE, raised |-> FALSE,
           cache_entries |-> Len(load_cache_metadata(metadata_file, io_ok)),
           image_files |->
               Cardinality({i \in ImageIds : cache_dir[i].exists}),
           total_size |-> RoundMb(TotalSize(cache_dir, ImageIds)),
           metadata_file_exists |-> TRUE]
    /\ status' # status
    /\ metadata_file' =
          [exists |-> TRUE,
           data |-> Dump(load_cache_metadata(metadata_file, io_ok))]
    /\ UNCHANGED <<cache_dir, uuid_count, calls, pc, frame, last_call,
                   created, appended, pruned, deleted, writer, observed,
                   documents, trip, sim, game, scan>>

\* the handler has no try: what load_cache_metadata raises is the answer
GetCacheStatus(io_ok) ==
    /\ status' =
          IF LoadRaises(metadata_file, io_ok)
          THEN [NoStatus EXCEPT !.raised = TRUE]
          ELSE [answered |-> TRUE, raised |-> FALSE,
                cache_entries |->
                    Len(load_cache_metadata(metadata_file, io_ok)),
                image_files |->
                    Cardinality({i \in ImageIds : cache_dir[i].exists}),
                total_size |-> RoundMb(TotalSize(cache_dir, ImageIds)),
                metadata_file_exists |-> metadata_file.exists]
    /\ status' # status
    /\ UNCHANGED <<metadata_file, cache_dir, uuid_count, calls, pc, frame,
                   last_call, created, appended, pruned, deleted, writer,
                   observed, documents, trip, sim, game, scan>>

(***************************************************************************)
(* Specifications                                                          *)
(***************************************************************************)
Step(p) ==
    \/ \E ok \in BOOLEAN : GetEmbedding(p, ok)
    \/ \E ok \in BOOLEAN, r \in ProviderResults : Fallback(p, ok, r)
    \/ \E io_ok \in BOOLEAN : LoadAndSearch(p, io_ok)
    \/ VerifyCacheEntry(p)
    \/ \E io_ok \in BOOLEAN : ReadImage(p, io_ok)
    \/ \E io \in SaveOutcomes : PruneEntry(p, io)
    \/ \E ok \in BOOLEAN, r \in ProviderResults : GenerateImage(p, ok, r)
    \/ \E io \in StoreOutcomes : StoreImage(p, io)
    \/ \E io \in SaveOutcomes : AppendEntry(p, io)

Environment == \E i \in ImageIds : DeleteAsset(i)

\* requests arrive at any time and run concurrently
Next ==
    \/ \E p \in Procs, q \in Queries :
          calls < MaxRaceCalls /\ Start(p, q[1], q[2])
    \/ \E p \in Procs : Step(p)
    \/ Environment

Spec == Init /\ [][Next]_vars

\* the cache as one request for "throne" leaves it: its image stored as
\* file 1, its entry saved
FirstEntry ==
    NewEntry([EmptyFrame EXCEPT !.search_text = SearchText("throne", ""),
                                !.query_embedding = EmbeddingOf("throne"),
                                !.image_id = 1])

WarmInit ==
    /\ metadata_file = save_cache_metadata([exists |-> FALSE, data |-> <<>>],
                                           <<FirstEntry>>, "ok")
    /\ cache_dir = [i \in ImageIds |->
                      IF i = 1
                      THEN [exists |-> TRUE,
                            bytes |-> b64decode(<<16, 20, 9, 3>>).bytes]
                      ELSE NoFile]
    /\ uuid_count = 1
    /\ calls = 0
    /\ pc = [p \in Procs |-> "idle"]
    /\ frame = [p \in Procs |-> EmptyFrame]
    /\ last_call = NoCall
    /\ created = {FirstEntry}
    /\ appended = {1}
    /\ pruned = {}
    /\ deleted = {}
    /\ writer = [p \in Procs |-> NoWriter]
    /\ observed = [p \in Procs |-> NotObserved]
    /\ documents = {}
    /\ status = NoStatus
    /\ trip = NoTrip
    /\ sim = NoSim
    /\ game = NoGame
    /\ scan = NoScan

\* concurrent requests on that cache
WarmSpec == WarmInit /\ [][Next]_vars

\* requests run one at a time
AllIdle == \A p \in Procs : pc[p] = "idle"

SeqNext ==
    \/ \E q \in Queries : AllIdle /\ Start(1, q[1], q[2])
    \/ Step(1)
    \/ Environment

SeqSpec == Init /\ [][SeqNext]_vars

\* requests one at a time, the status query at any time, over an index
\* document and an asset directory that are also changed from outside
CorruptNext ==
    \/ \E q \in Queries :
          AllIdle /\ calls < MaxCorruptCalls /\ Start(1, q[1], q[2])
    \/ Step(1)
    \/ Environment
    \/ \E doc \in CorruptDocuments : CorruptIndex(doc)
    \/ \E io_ok \in BOOLEAN : GetCacheStatus(io_ok)

CorruptSpec == Init /\ [][CorruptNext]_vars

(***************************************************************************)
(* save_cache_metadata and load_cache_metadata at the grain of the file    *)
(* system: threads of the server call them concurrently.  open(.., 'w')    *)
(* truncates the document, json.dump then writes it piece by piece at the  *)
(* writer's own file offset, and the with-block closes it.                 *)
(***************************************************************************)
Nul == [tok |-> "NUL"]

SavedEntry(i) ==
    [id |-> i, text |-> "throne", embedding |-> EmbeddingOf("throne"),
     image_path |-> ImagePath(i)]

\* the lists requests save: an index of up to two entries
SavedLists == { <<>>, <<SavedEntry(1)>>, <<SavedEntry(1), SavedEntry(2)>> }

\* a write of one token at offset i (1-based); a gap reads as NUL bytes
RECURSIVE WriteAt(_, _, _)
WriteAt(data, i, token) ==
    IF i <= Len(data) THEN [data EXCEPT ![i] = token]
    ELSE IF i = Len(data) + 1 THEN Append(data, token)
    ELSE WriteAt(Append(data, Nul), i, token)

SaveOpen(p, metadata) ==
    /\ ~writer[p].open
    /\ Cardinality(documents) < MaxSaves
    /\ metadata_file' = [exists |-> TRUE, data |-> <<>>]
    /\ writer' = [writer EXCEPT ![p] =
                     [open |-> TRUE, buf |-> Dump(metadata), pos |-> 0]]
    /\ documents' = documents \cup {Dump(metadata)}
    /\ UNCHANGED <<cache_dir, uuid_count, calls, pc, frame, last_call,
                   created, appended, pruned, deleted, observed, status, trip,
                   sim, game, scan>>

SaveWrite(p) ==
    /\ writer[p].open
    /\ writer[p].pos < Len(writer[p].buf)
    /\ metadata_file' =
          [metadata_file EXCEPT !.data =
              WriteAt(@, writer[p].pos + 1, writer[p].buf[writer[p].pos + 1])]
    /\ writer' = [writer EXCEPT ![p].pos = @ + 1]
    /\ UNCHANGED <<cache_dir, uuid_count, calls, pc, frame, last_call,
                   created, appended, pruned, deleted, observed, documents,
                   status, trip, sim, game, scan>>

SaveClose(p) ==
    /\ writer[p].open
    /\ writer[p].pos = Len(writer[p].buf)
    /\ writer' = [writer EXCEPT ![p] = NoWriter]
    /\ UNCHANGED <<metadata_file, cache_dir, uuid_count, calls, pc, frame,
                   last_call, created, appended, pruned, deleted, observed,
                   documents, status, trip, sim, game, scan>>

LoadDocument(p) ==
    /\ ~writer[p].open
    /\ observed' = [observed EXCEPT ![p] =
                       [seen |-> TRUE, exists |-> metadata_file.exists,
                        data |-> metadata_file.data,
                        entries |-> load_cache_metadata(metadata_file, TRUE)]]
    /\ UNCHANGED <<metadata_file, cache_dir, uuid_count, calls, pc, frame,
                   last_call, created, appended, pruned, deleted, writer,
                   documents, status, trip, sim, game, scan>>

FileNext ==
    \/ \E p \in Procs, m \in SavedLists : SaveOpen(p, m)
    \/ \E p \in Procs : SaveWrite(p)
    \/ \E p \in Procs : SaveClose(p)
    \/ \E p \in Procs : LoadDocument(p)

FileSpec == Init /\ [][FileNext]_vars

(***************************************************************************)
(* save_image_to_cache and load_image_from_cache on the strings            *)
(* _extract_image_url_from_result makes of the provider's answers          *)
(***************************************************************************)
\* base64 text as a provider may send it: letters (A, D, J, Q, U), padding
\* and a line break
TripAlphabet == {0, 3, 9, 16, 20, PadCode, PadCode + 1}

TripResults == [kind : {"base64"}, body : [1..TripLen -> TripAlphabet]]

\* save_image_to_cache(base64_data, image_id): the bytes written to the
\* file, or the exception of b64decode
save_image_to_cache(base64_data) == b64decode(Base64Data(base64_data))

TripInit ==
    /\ InitCache
    /\ sim = NoSim
    /\ game = NoGame
    /\ scan = NoScan
    /\ \E result \in TripResults :
          trip = [NoTrip EXCEPT
                     !.stage = "extracted",
                     !.s = extract_image_url_from_result(result)]

TripSave ==
    /\ trip.stage = "extracted"
    /\ LET saved == save_image_to_cache(trip.s)
       IN trip' = IF saved.ok
                  THEN [trip EXCEPT !.stage = "saved", !.bytes = saved.bytes]
                  ELSE [trip EXCEPT !.stage = "raised"]
    /\ UNCHANGED <<metadata_file, cache_dir, uuid_count, calls, pc, frame,
                   last_call, created, appended, pruned, deleted, writer,
                   observed, documents, status, sim, game, scan>>

TripLoad ==
    /\ trip.stage = "saved"
    /\ trip' = [trip EXCEPT !.stage = "loaded",
                            !.loaded = load_image_from_cache(trip.bytes)]
    /\ UNCHANGED <<metadata_file, cache_dir, uuid_count, calls, pc, frame,
                   last_call, created, appended, pruned, deleted, writer,
                   observed, documents, status, sim, game, scan>>

TripNext == TripSave \/ TripLoad

TripSpec == TripInit /\ [][TripNext]_vars

(***************************************************************************)
(* cosine_similarity on the vectors a caller may hand it                   *)
(***************************************************************************)
\* components of the vectors, and their longest length
SimValues == {-4, -3, 0, 3, 4}

\* np.linalg.norm is computed here for vectors whose norm is an integer
HasNorm(v) == \E n \in 0..Dot(v, v) : n * n = Dot(v, v)

SimVectors ==
    {v \in UNION {[1..n -> SimValues] : n \in 0..SimLen} : HasNorm(v)}

SimInit ==
    /\ InitCache
    /\ trip = NoTrip
    /\ game = NoGame
    /\ scan = NoScan
    /\ \E vec1 \in SimVectors, vec2 \in SimVectors :
          sim = [NoSim EXCEPT !.stage = "called", !.vec1 = vec1,
                              !.vec2 = vec2]

Similarity ==
    /\ sim.stage = "called"
    /\ sim' = IF DotRaises(sim.vec1, sim.vec2)
              THEN [sim EXCEPT !.stage = "done", !.kind = "ValueError"]
              ELSE [sim EXCEPT !.stage = "done", !.kind = "float",
                               !.value = cosine_similarity(sim.vec1,
                                                           sim.vec2)]
    /\ UNCHANGED <<metadata_file, cache_dir, uuid_count, calls, pc, frame,
                   last_call, created, appended, pruned, deleted, writer,
                   observed, documents, status, trip, game, scan>>

SimNext == Similarity

SimSpec == SimInit /\ [][SimNext]_vars

(***************************************************************************)
(* search_cache on the lists load_cache_metadata may hand it               *)
(***************************************************************************)
\* query embeddings: two opposite vectors and the zero vector
ScanQueries == { <<3, 4>>, <<-3, -4>>, <<0, 0>> }

ScanEntry(id, embedding) ==
    [id |-> id, text |-> "throne", embedding |-> embedding,
     image_path |-> ImagePath(id)]

\* items of the loaded list: a dict without an embedding, entries whose
\* embedding is empty, the zero vector, vectors at every angle to the
\* queries (two entries share one), a vector of another size, and a value
\* that is not a dict
ScanItems ==
    { [id |-> 1, text |-> "throne", image_path |-> ImagePath(1)],
      ScanEntry(2, <<>>),
      ScanEntry(3, <<0, 0>>),
      ScanEntry(4, <<3, 4>>),
      ScanEntry(5, <<4, 3>>),
      ScanEntry(6, <<-3, -4>>),
      ScanEntry(7, <<4, -3>>),
      ScanEntry(8, <<3, 4>>),
      ScanEntry(9, <<5>>),
      [scalar |-> 1] }

ScanLists == UNION {[1..n -> ScanItems] : n \in 0..ScanLen}

ScanInit ==
    /\ InitCache
    /\ trip = NoTrip
    /\ sim = NoSim
    /\ game = NoGame
    /\ \E query_embedding \in ScanQueries, cache_metadata \in ScanLists :
          scan = [NoScan EXCEPT !.stage = "called",
                                !.query_embedding = query_embedding,
                                !.cache_metadata = cache_metadata]

\* best_match, max_similarity = search_cache(query_embedding, cache_metadata)
SearchCache ==
    /\ scan.stage = "called"
    /\ LET found == search_cache(scan.query_embedding, scan.cache_metadata)
       IN scan' = IF found.raised
                  THEN [scan EXCEPT !.stage = "raised", !.raised = TRUE]
                  ELSE [scan EXCEPT !.stage = "returned",
                                    !.best_match = found.best_match,
                                    !.max_similarity = found.max_similarity]
    /\ UNCHANGED <<metadata_file, cache_dir, uuid_count, calls, pc, frame,
                   last_call, created, appended, pruned, deleted, writer,
                   observed, documents, status, trip, sim, game>>

ScanNext == SearchCache

ScanSpec == ScanInit /\ [][ScanNext]_vars

(***************************************************************************)
(* The game endpoints start_game and continue_game (main.py) and the       *)
(* narrative provider behind them (ai_service.py).  One session is         *)
(* followed; calls are made one at a time.  A dict of the program is a     *)
(* record, a key that is absent has the value "missing" (MissingNed for a  *)
(* ned_status); characters is "default", "valid" or "invalid" as the list  *)
(* passes List[Character] of the response schemas or not; choices is the   *)
(* length of the list.                                                     *)
(***************************************************************************)
\* the turn at which generate_continuation ends the game
MaxTurns == 15

MissingNed == [dict |-> FALSE, location |-> "missing"]

\* d.get(key, default), of a string and of a ned_status
GetOr(value, default) == IF value = "missing" THEN default ELSE value
GetNed(value, default) == IF value = MissingNed THEN default ELSE value

\* what the narrative provider answers to generate_initial_scene: an error,
\* a scene with characters, a scene without setting whose characters lack
\* a field
InitialResults ==
    { [kind |-> "raise", scene_setting |-> "missing",
       characters |-> "missing"],
      [kind |-> "json", scene_setting |-> "Red Keep throne room",
       characters |-> "valid"],
      [kind |-> "json", scene_setting |-> "missing",
       characters |-> "invalid"] }

generate_initial_scene(result) ==
    IF result.kind = "raise"
    THEN [scene_setting |-> "Ned's chambers", characters |-> "missing",
          choices |-> 3]
    ELSE [scene_setting |-> result.scene_setting,
          characters |-> result.characters, choices |-> 3]

Json(game_status, game_over, choices, characters, ned_status) ==
    [kind |-> "json",
     scene_setting |-> IF ned_status.dict THEN ned_status.location
                       ELSE "missing",
     choices |-> choices, characters |-> characters,
     ned_status |-> ned_status, game_status |-> game_status,
     game_over |-> game_over]

\* what the narrative provider answers to generate_continuation: an error
\* (or text that is no JSON object); a full turn; an object with nothing
\* but a narrative; a victory; a defeat; game_over without a game_status;
\* characters that lack a field; a ned_status that is a string; a
\* location that says "escaped"
ContinuationResults ==
    { [Json("missing", "missing", 0, "missing", MissingNed)
          EXCEPT !.kind = "raise"],
      Json("active", "false", 3, "valid", InLocation("Secret passage")),
      Json("missing", "missing", 0, "missing", MissingNed),
      Json("victory", "true", 0, "valid",
           InLocation("Outside King's Landing")),
      Json("defeat", "true", 0, "missing", MissingNed),
      Json("missing", "true", 0, "missing", MissingNed),
      Json("active", "false", 3, "invalid", MissingNed),
      Json("active", "false", 3, "valid", NotADict),
      Json("active", "false", 3, "valid", InLocation("Escaped by ship")) }

\* ned_status.get("location") == "Outside King's Landing"
\*    or "escaped" in str(ned_status.get("location", "")).lower()
Escaped(location) ==
    location = "Outside King's Landing" \/ location = "Escaped by ship"

NoContinuation ==
    [scene_setting |-> "missing", choices |-> 0, characters |-> "missing",
     ned_status |-> MissingNed, game_status |-> "missing",
     game_over |-> FALSE]

\* `if turn_number >= 15`, the turn counted from 1
ForcedEnd(turn_number) == turn_number >= MaxTurns

\* generate_continuation(game_state, choice_description): the dict it
\* returns, or raised; consulted: the provider was called.  A ned_status
\* that is no dict has no .get: AttributeError, in the forced ending and
\* in the f-string of the context alike, both outside the try
generate_continuation(game_state, result) ==
    LET turn_number == game_state.turn_number + 1
        characters == game_state.characters
        ned_status == game_state.ned_status
        returns(consulted, value) ==
            [raised |-> FALSE, consulted |-> consulted, value |-> value]
    IN IF ForcedEnd(turn_number)
       THEN IF ~ned_status.dict
            THEN [raised |-> TRUE, consulted |-> FALSE,
                  value |-> NoContinuation]
            ELSE IF Escaped(ned_status.location)
            THEN returns(FALSE,
                    [NoContinuation EXCEPT
                        !.scene_setting = "Outside King's Landing",
                        !.characters = characters,
                        !.game_status = "victory", !.game_over = TRUE])
            ELSE returns(FALSE,
                    [NoContinuation EXCEPT
                        !.scene_setting = ned_status.location,
                        !.characters = characters,
                        !.game_status = "defeat", !.game_over = TRUE])
       ELSE IF ~ned_status.dict
       THEN [raised |-> TRUE, consulted |-> FALSE, value |-> NoContinuation]
       ELSE IF result.kind = "raise"
       THEN returns(TRUE,
               [NoContinuation EXCEPT
                   !.scene_setting = ned_status.location,
                   !.choices = 3, !.characters = characters,
                   !.game_status = "active"])
       ELSE LET game_over == result.game_over = "true"
            IN returns(TRUE,
                  [scene_setting |-> result.scene_setting,
                   choices |-> IF ~game_over /\ result.choices = 0 THEN 3
                               ELSE result.choices,
                   characters |-> result.characters,
                   ned_status |-> result.ned_status,
                   game_status |-> GetOr(result.game_status, "active"),
                   game_over |-> game_over])

\* the request ids: the id of the session, text that is no UUID, the UUID
\* of no session
SessionIds == {"valid", "malformed", "unknown"}

IsActive_always(game_status) == TRUE

\* `if game_session.game_status != "active": raise HTTPException(400)`
IsActive(game_status) == game_status = "active"

updated_game_state_unlogged(game_state, continuation) ==
    [turn_number |-> game_state.turn_number + 1,
     previous_turns |-> game_state.previous_turns,
     characters |-> GetOr(continuation.characters, game_state.characters),
     ned_status |-> GetNed(continuation.ned_status, game_state.ned_status)]

\* updated_game_state of continue_game
updated_game_state(game_state, continuation) ==
    [turn_number |-> game_state.turn_number + 1,
     previous_turns |-> Append(game_state.previous_turns,
                               game_state.turn_number),
     characters |-> GetOr(continuation.characters, game_state.characters),
     ned_status |-> GetNed(continuation.ned_status, game_state.ned_status)]

\* the response model accepts the characters handed to it
ResponseValid(characters) == characters # "invalid"

Answered(code, session_id, consulted) ==
    [NoAnswer EXCEPT !.code = code, !.session_id = session_id,
                     !.consulted = consulted,
                     !.tick = 1 - game.answer.tick]

cachevars == <<metadata_file, cache_dir, uuid_count, calls, pc, frame,
               last_call, created, appended, pruned, deleted, writer,
               observed, documents, status, trip, sim, scan>>

\* POST /api/game/start: the row is committed before the response is built
StartGame(result) ==
    /\ ~game.session.exists
    /\ LET initial_scene == generate_initial_scene(result)
           game_state ==
               [turn_number |-> 0, previous_turns |-> <<>>,
                characters |-> GetOr(initial_scene.characters, "default"),
                ned_status |->
                    InLocation(GetOr(initial_scene.scene_setting,
                                     "Red Keep"))]
           game_session ==
               [exists |-> TRUE, game_state |-> game_state,
                current_scene_setting |->
                    GetOr(initial_scene.scene_setting, ""),
                game_status |-> "active"]
       IN game' = [game EXCEPT
                      !.session = game_session,
                      !.answer =
                          IF ResponseValid(game_state.characters)
                          THEN [Answered(200, "valid", TRUE) EXCEPT
                                   !.game_status = "active",
                                   !.choices = initial_scene.choices]
                          ELSE Answered(500, "valid", TRUE)]
    /\ UNCHANGED cachevars

\* POST /api/game/continue: the row is committed before the response is
\* built, so a response the schema rejects (500) leaves the turn made
ContinueGame(session_id, result) ==
    /\ LET game_session == game.session
           made == generate_continuation(game_session.game_state, result)
           continuation ==
               [made.value EXCEPT
                   !.choices = IF @ = 0 /\ ~made.value.game_over THEN 3
                               ELSE @]
           committed ==
               [game_session EXCEPT
                   !.game_state = updated_game_state(@, continuation),
                   !.current_scene_setting =
                       GetOr(continuation.scene_setting, @),
                   !.game_status = continuation.game_status]
       IN game' =
            IF session_id = "malformed"
            THEN [game EXCEPT !.answer = Answered(400, session_id, FALSE)]
            ELSE IF session_id = "unknown" \/ ~game_session.exists
            THEN [game EXCEPT !.answer = Answered(404, session_id, FALSE)]
            ELSE IF ~IsActive(game_session.game_status)
            THEN [game EXCEPT !.answer = Answered(400, session_id, FALSE)]
            ELSE IF made.raised
            THEN [game EXCEPT
                     !.answer = Answered(500, session_id, made.consulted)]
            ELSE IF ~ResponseValid(GetOr(continuation.characters, "default"))
            THEN [game EXCEPT
                     !.session = committed,
                     !.answer = Answered(500, session_id, made.consulted)]
            ELSE [session |-> committed,
                  answer |->
                      [Answered(200, session_id, made.consulted) EXCEPT
                          !.game_over = continuation.game_over,
                          !.game_status = continuation.game_status,
                          !.choices = continuation.choices],
                  succeeded |-> game.succeeded + 1]
    /\ UNCHANGED cachevars

GameNext ==
    \/ \E result \in InitialResults : StartGame(result)
    \/ \E session_id \in SessionIds, result \in ContinuationResults :
          ContinueGame(session_id, result)

GameSpec == Init /\ [][GameNext]_vars

\* every started request keeps running: provider calls are bounded by
\* timeouts and file operations return
FairNext ==
    \/ \E q \in Queries :
          AllIdle /\ calls < MaxFairCalls /\ Start(1, q[1], q[2])
    \/ Step(1)
    \/ Environment

FairSpec == Init /\ [][FairNext]_vars /\ WF_vars(Step(1))

(***************************************************************************)
(* Vocabulary of the properties                                            *)
(***************************************************************************)
\* the index a load would see now
PersistedIndex == load_cache_metadata(metadata_file, TRUE)

\* request p takes a step / ends with this step
Moves(p) == pc'[p] # pc[p]
Finishes(p) == pc[p] # "idle" /\ pc'[p] = "idle"

\* what request p has done once its step is taken: on the step that ends it
\* the record of the ended request, else the running request's own
EffectsAfter(p) ==
    IF pc'[p] = "idle" THEN last_call'.effects ELSE frame'[p].effects

\* a request has ended, and it is the last one that did
Ended == last_call.ret.kind # "running"

\* the file the best match of request p names
BestFile(p) == cache_dir[FileOf(frame[p].best_match.image_path)]

AtThreshold(similarity) == 20 * similarity.num >= 17 * similarity.den

Files(dir) == {i \in ImageIds : dir[i].exists}

(***************************************************************************)
(* C1 Cache hit: a best match with similarity >= 0.85 is always taken to   *)
(* verification and, its file present, to the read; a request whose read   *)
(* succeeds returns the base64 text of the stored bytes as a png data URL  *)
(* with cached = true, has called the image provider zero times, has       *)
(* written neither index nor asset, and its steps leave the index document *)
(* and the asset directory as they are.                                    *)
(***************************************************************************)
C1_CacheHit ==
    [][\A p \in Procs :
         /\ (pc[p] = "load" /\ Moves(p)) =>
               (pc'[p] = "verify" <=>
                   /\ frame'[p].best_match # NoneEntry
                   /\ AtThreshold(frame'[p].max_similarity))
         /\ (pc[p] = "verify" /\ Moves(p)) =>
               /\ BestFile(p).exists <=> pc'[p] = "read"
               /\ UNCHANGED <<metadata_file, cache_dir>>
         /\ (pc[p] = "read" /\ Finishes(p)) =>
               /\ BestFile(p).exists
               /\ last_call'.ret =
                     [kind |-> "dict",
                      image_url |-> [prefix |-> PngPrefix,
                                     body |-> b64encode(BestFile(p).bytes)],
                      cached |-> TRUE, error |-> ""]
               /\ last_call'.response.image_url = last_call'.ret.image_url
               /\ last_call'.effects.generate = 0
               /\ last_call'.effects.index_saves = 0
               /\ last_call'.effects.asset_writes = 0
               /\ UNCHANGED <<metadata_file, cache_dir>>
      ]_vars

\* a request has been served from the cache
C1_Witness ==
    /\ last_call.ret.kind = "dict"
    /\ last_call.ret.cached
    /\ last_call.ret.image_url.prefix = PngPrefix
    /\ last_call.effects.asset_reads = 1
    /\ last_call.effects.generate = 0

(***************************************************************************)
(* C2 Drift repair: when the best match clears the threshold and its file  *)
(* is gone at verification, the request never reads or returns that        *)
(* entry; it saves the loaded index without the entry (the save            *)
(* succeeding, the persisted index is the loaded index minus that entry),  *)
(* goes on to generation, and a request that took this branch never        *)
(* returns cached = true: with generation and storage succeeding it        *)
(* returns the generated image with cached = false.                        *)
(***************************************************************************)
C2_DriftRepair ==
    [][\A p \in Procs :
         /\ (pc[p] = "verify" /\ Moves(p) /\ ~BestFile(p).exists) =>
               pc'[p] = "prune"
         /\ (pc[p] = "prune" /\ Moves(p)) =>
               /\ pc'[p] = "generate"
               /\ frame'[p].effects.pruned
               /\ frame'[p].effects.fault_free =>
                     /\ ~(\E i \in 1..Len(PersistedIndex') :
                             PersistedIndex'[i].id = frame[p].best_match.id)
                     /\ PersistedIndex' =
                           SelectSeq(frame[p].cache_metadata,
                                     LAMBDA e : e # frame[p].best_match)
         /\ (Finishes(p) /\ last_call'.effects.pruned) =>
               /\ ~last_call'.ret.cached
               /\ last_call'.effects.asset_reads = 0
               /\ last_call'.effects.fault_free =>
                     /\ last_call'.ret.kind = "dict"
                     /\ last_call'.ret.image_url = frame[p].image_url
                     /\ last_call'.ret.image_url.prefix = JpegPrefix
      ]_vars

\* a request pruned a stale entry, generated, and returned a fresh image
C2_Witness ==
    /\ last_call.effects.pruned
    /\ last_call.effects.fault_free
    /\ last_call.ret.kind = "dict"
    /\ ~last_call.ret.cached
    /\ Len(PersistedIndex) = 1
    /\ PersistedIndex[1].id = last_call.effects.asset
    /\ last_call.effects.asset > 1

(***************************************************************************)
(* C3 Embedding fallback: a request whose embedding failed and whose       *)
(* image provider answered with an image returns a dict carrying that      *)
(* image with cached = false, and the endpoint answers with the image and  *)
(* no error; the request has written neither index nor asset.              *)
(***************************************************************************)
C3_EmbeddingFallback ==
    (/\ Ended
     /\ ~last_call.effects.embedded
     /\ last_call.effects.generated) =>
        /\ last_call.ret.kind = "dict"
        /\ ~last_call.ret.cached
        /\ last_call.response.image_url = last_call.ret.image_url
        /\ last_call.response.error = "None"
        /\ last_call.effects.index_saves = 0
        /\ last_call.effects.asset_writes = 0

(***************************************************************************)
(* C4 Generation failure is terminal: a step-5 call of the image provider  *)
(* either yields a non-empty image URL and goes on to storage, or ends the *)
(* request with a raised error that the endpoint reports; the provider was *)
(* called exactly once by the request, no asset was written, no id was     *)
(* drawn, nothing was appended (the only index write the request can have  *)
(* made is the drift-repair prune), and the step changes neither the       *)
(* index document nor the asset directory.                                 *)
(***************************************************************************)
C4_GenerationFailureTerminal ==
    [][\A p \in Procs :
         (pc[p] = "generate" /\ Moves(p)) =>
            \/ /\ pc'[p] = "store"
               /\ frame'[p].image_url # NoneUrl
               /\ frame'[p].image_url.body # <<>>
               /\ frame'[p].effects.generated
            \/ /\ pc'[p] = "idle"
               /\ last_call'.ret.kind = "raise"
               /\ last_call'.response.image_url = NoneUrl
               /\ last_call'.response.error \notin {"None", "pending", ""}
               /\ last_call'.effects.generate = 1
               /\ ~last_call'.effects.generated
               /\ last_call'.effects.asset_writes = 0
               /\ last_call'.effects.index_saves =
                     (IF last_call'.effects.pruned THEN 1 ELSE 0)
               /\ UNCHANGED <<metadata_file, cache_dir, uuid_count, created>>
      ]_vars

\* a request ended in a generation error after a plain miss
C4_Witness ==
    /\ last_call.ret.kind = "raise"
    /\ last_call.effects.embedded
    /\ last_call.effects.generate = 1
    /\ ~last_call.effects.generated
    /\ ~last_call.effects.pruned
    /\ last_call.response.error = "Failed to generate image"

(***************************************************************************)
(* C5 Caller-facing boundary: every request that was started comes to an   *)
(* end, and the response of an ended request has exactly one of image_url  *)
(* and error set, whatever the providers, the index and the assets did.    *)
(***************************************************************************)
ImageSet(r) == r.image_url # NoneUrl
ErrorSet(r) == r.error # "None"

C5_CallerBoundary ==
    /\ [](Ended =>
             /\ ImageSet(last_call.response) # ErrorSet(last_call.response)
             /\ last_call.response.error # "pending"
             /\ ImageSet(last_call.response) =>
                   last_call.response.image_url.body # <<>>)
    /\ \A p \in Procs : (pc[p] # "idle") ~> (pc[p] = "idle")

\* a request whose embedding and whose image provider both failed has ended
\* in an error payload
C5_Witness ==
    /\ Ended
    /\ ~last_call.effects.embedded
    /\ last_call.ret.kind = "raise"
    /\ ErrorSet(last_call.response)
    /\ ~ImageSet(last_call.response)

(***************************************************************************)
(* C6 Miss handling: the index a request works on is the one it loaded     *)
(* (only the prune changes it); storing the image adds exactly one file,   *)
(* under a fresh id; and a request with no entry at or above threshold     *)
(* whose generation, storage and save succeed leaves the persisted index   *)
(* equal to the loaded index followed by one new entry (query text, query  *)
(* embedding, path of the new file) and returns the generated image with   *)
(* cached = false.  On an empty index the result is one entry.             *)
(***************************************************************************)
C6_MissHandling ==
    [][\A p \in Procs :
         /\ (pc[p] = "load" /\ Moves(p) /\ frame'[p].effects.fault_free) =>
               frame'[p].cache_metadata = PersistedIndex
         /\ (pc[p] \in {"verify", "read", "generate", "store"}
               /\ Moves(p) /\ ~Finishes(p)) =>
               frame'[p].cache_metadata = frame[p].cache_metadata
         /\ (pc[p] = "store" /\ pc'[p] = "append") =>
               /\ frame'[p].image_id \notin Files(cache_dir)
               /\ Files(cache_dir') = Files(cache_dir) \cup {frame'[p].image_id}
               /\ Cardinality(Files(cache_dir')) =
                     Cardinality(Files(cache_dir)) + 1
               /\ \A i \in Files(cache_dir) : cache_dir'[i] = cache_dir[i]
               /\ UNCHANGED metadata_file
         /\ (/\ pc[p] = "append" /\ Moves(p)
             /\ ~(frame[p].best_match # NoneEntry
                    /\ AtThreshold(frame[p].max_similarity))
             /\ EffectsAfter(p).fault_free) =>
               /\ Finishes(p)
               /\ Len(PersistedIndex') = Len(frame[p].cache_metadata) + 1
               /\ SubSeq(PersistedIndex', 1, Len(frame[p].cache_metadata)) =
                     frame[p].cache_metadata
               /\ LET e == PersistedIndex'[Len(PersistedIndex')]
                  IN /\ e.id = frame[p].image_id
                     /\ e.text = frame[p].search_text
                     /\ e.text = SearchText(frame[p].art_description,
                                            frame[p].style_notes)
                     /\ e.embedding = frame[p].query_embedding
                     /\ e.embedding = EmbeddingOf(e.text)
                     /\ FileOf(e.image_path) = frame[p].image_id
                     /\ last_call'.effects.asset = frame[p].image_id
               /\ last_call'.ret =
                     [kind |-> "dict", image_url |-> frame[p].image_url,
                      cached |-> FALSE, error |-> ""]
               /\ frame[p].cache_metadata = <<>> => Len(PersistedIndex') = 1
               /\ UNCHANGED cache_dir
      ]_vars

\* a miss on the empty cache: one file, one entry with the query text
C6_Witness ==
    /\ AllIdle
    /\ last_call.ret.kind = "dict"
    /\ ~last_call.ret.cached
    /\ last_call.effects.fault_free
    /\ ~last_call.effects.pruned
    /\ calls = 1
    /\ Cardinality(Files(cache_dir)) = 1
    /\ Len(PersistedIndex) = 1
    /\ PersistedIndex[1].text = "throne dark"
    /\ cache_dir[FileOf(PersistedIndex[1].image_path)].exists

(***************************************************************************)
(* C7 Idempotence of resolve: when a request missed and succeeded, nothing *)
(* touched the cache since, and the next request has the same description  *)
(* and style notes (and meets no provider or I/O failure), that request    *)
(* returns cached = true, is served from the asset the first one wrote,    *)
(* and returns the very content the first one returned.                    *)
(***************************************************************************)
SecondOfTwo(p) ==
    /\ Finishes(p)
    /\ last_call.clean
    /\ last_call.text = frame[p].search_text
    /\ last_call.ret.kind = "dict"
    /\ ~last_call.ret.cached
    /\ last_call.effects.fault_free
    /\ last_call'.effects.fault_free

C7_Idempotence ==
    [][\A p \in Procs :
         SecondOfTwo(p) =>
            /\ last_call'.ret.kind = "dict"
            /\ last_call'.ret.cached
            /\ last_call'.effects.asset = last_call.effects.asset
            /\ last_call'.ret.image_url = last_call.ret.image_url
      ]_vars

\* what does hold of the second request: a hit on the same asset with the
\* same payload, under another media type
C7_SameAssetAndPayload ==
    [][\A p \in Procs :
         SecondOfTwo(p) =>
            /\ last_call'.ret.kind = "dict"
            /\ last_call'.ret.cached
            /\ last_call'.effects.asset = last_call.effects.asset
            /\ last_call'.ret.image_url.body = last_call.ret.image_url.body
            /\ last_call'.ret.image_url.prefix = PngPrefix
            /\ last_call.ret.image_url.prefix = JpegPrefix
      ]_vars

(***************************************************************************)
(* C9 Weak consistency under racing writers: with every load and save one  *)
(* step, the persisted index is at all times a sequence of entries each    *)
(* exactly as some miss built it, every entry built is whole, the document *)
(* is a well-formed array unless a write failed, and every request that    *)
(* met no provider or I/O failure ends with an image.                      *)
(***************************************************************************)
C9_WeakConsistency ==
    /\ \A i \in 1..Len(PersistedIndex) : PersistedIndex[i] \in created
    /\ \A e \in created :
          /\ e.id \in 1..uuid_count
          /\ e.embedding = EmbeddingOf(e.text)
          /\ e.embedding # <<>>
          /\ e.image_path = <<"image_cache", e.id>>
          /\ \E q \in Queries : e.text = SearchText(q[1], q[2])
    /\ (metadata_file.exists /\ metadata_file.data # <<>>) =>
          /\ metadata_file.data[1] = LBracket
          /\ metadata_file.data[Len(metadata_file.data)] = RBracket
    /\ (Ended /\ last_call.effects.fault_free) =>
          /\ last_call.ret.kind = "dict"
          /\ last_call.ret.image_url # NoneUrl
          /\ last_call.ret.image_url.body # <<>>

\* a lost update: two racing misses both saved their entry without a
\* failure, and the persisted index holds only one of them
C9_Witness ==
    /\ AllIdle
    /\ Cardinality(created) = 2
    /\ appended = {e.id : e \in created}
    /\ Len(PersistedIndex) = 1
    /\ last_call.effects.fault_free
    /\ ~last_call.effects.pruned
    /\ Cardinality(Files(cache_dir)) = 2

(***************************************************************************)
(* C10 Save failure is logged-and-continue: when the save of step 6 does   *)
(* not get the new entry into the persisted index, the request still       *)
(* returns the generated image with cached = false, the endpoint reports   *)
(* no error, and the persisted index is what it was before the save.       *)
(***************************************************************************)
AppendSaveFailed(p) ==
    /\ pc[p] = "append"
    /\ Moves(p)
    /\ ~(\E i \in 1..Len(PersistedIndex') :
            PersistedIndex'[i].id = frame[p].image_id)

C10_SaveFailure ==
    [][\A p \in Procs :
         AppendSaveFailed(p) =>
            /\ last_call'.ret =
                  [kind |-> "dict", image_url |-> frame[p].image_url,
                   cached |-> FALSE, error |-> ""]
            /\ last_call'.response.error = "None"
            /\ PersistedIndex' = PersistedIndex
      ]_vars

\* what does hold on a failed save: the image is returned, without error
C10_ImageStillReturned ==
    [][\A p \in Procs :
         AppendSaveFailed(p) =>
            /\ last_call'.ret =
                  [kind |-> "dict", image_url |-> frame[p].image_url,
                   cached |-> FALSE, error |-> ""]
            /\ last_call'.response.error = "None"
            /\ last_call'.response.image_url = frame[p].image_url
      ]_vars

(***************************************************************************)
(* C8 Atomic save: whatever the interleaving of saves and loads, a load    *)
(* reads either no document (before the first save) or a complete          *)
(* document some save was asked to write, never an empty or partial one;   *)
(* and when no save is in progress the document is the complete output of  *)
(* one of the saves.                                                       *)
(***************************************************************************)
C8_AtomicSave ==
    /\ \A p \in Procs :
          (observed[p].seen /\ observed[p].exists) =>
             observed[p].data \in documents
    /\ ((\A p \in Procs : ~writer[p].open) /\ metadata_file.exists) =>
          metadata_file.data \in documents

\* the second half alone: two saves that overlapped have both closed and
\* the document is the output of neither
C8_SavesDoNotMix ==
    ((\A p \in Procs : ~writer[p].open) /\ metadata_file.exists) =>
        metadata_file.data \in documents

(***************************************************************************)
(* C11 Load degrades to empty: a load of an index document that is absent, *)
(* unparseable or anything other than an array of whole entries never      *)
(* raises and gives the request the empty index, the request goes on as a  *)
(* miss on an empty cache, and, meeting no provider or I/O failure, it     *)
(* ends with a generated image and no error.                               *)
(***************************************************************************)
C11_LoadDegradesToEmpty ==
    [][\A p \in Procs :
         /\ (pc[p] = "load" /\ Moves(p) /\ ~ExpectedShape(metadata_file)) =>
               /\ ~Finishes(p)
               /\ frame'[p].cache_metadata = <<>>
               /\ frame'[p].best_match = NoneEntry
               /\ pc'[p] = "generate"
         /\ (/\ Finishes(p)
             /\ last_call'.effects.degraded
             /\ last_call'.effects.fault_free) =>
               /\ last_call'.ret.kind = "dict"
               /\ ~last_call'.ret.cached
               /\ ImageSet(last_call'.response)
               /\ last_call'.response.error = "None"
      ]_vars

\* what does hold: it is so for a document that is absent, that is no JSON,
\* or that is JSON but no list
C11_AbsentOrNoList ==
    [][\A p \in Procs :
         (/\ pc[p] = "load" /\ Moves(p)
          /\ ~WellFormed(metadata_file.data)
          /\ ~LoadRaises(metadata_file, TRUE)) =>
            /\ ~Finishes(p)
            /\ frame'[p].cache_metadata = <<>>
            /\ pc'[p] = "generate"
      ]_vars

(***************************************************************************)
(* C12 Entry lifecycle: with requests run one at a time, assets deleted    *)
(* out of band and loads of the index failing, every step keeps every      *)
(* entry of the persisted index in it, as it is, except the step of a      *)
(* request that prunes the entry: its best match at or above the           *)
(* threshold, whose asset is missing.                                      *)
(***************************************************************************)
InIndex(e, index) == \E i \in 1..Len(index) : index[i] = e

PrunedNow(e) ==
    \E p \in Procs :
        /\ pc[p] = "prune"
        /\ Moves(p)
        /\ frame[p].best_match = e
        /\ AtThreshold(frame[p].max_similarity)
        /\ ~BestFile(p).exists

C12_EntryLifecycle ==
    [][\A i \in 1..Len(PersistedIndex) :
         \/ InIndex(PersistedIndex[i], PersistedIndex')
         \/ PrunedNow(PersistedIndex[i])
      ]_vars

\* the same of the steps whose save, if any, did not fail: entries are lost
\* without any write failing
C12_WhenSavesSucceed ==
    [][(metadata_file'.exists /\ metadata_file'.data # <<>>) =>
         \A i \in 1..Len(PersistedIndex) :
            \/ InIndex(PersistedIndex[i], PersistedIndex')
            \/ PrunedNow(PersistedIndex[i])
      ]_vars

(***************************************************************************)
(* C13 Unique ids: in every state reached from the empty cache by requests *)
(* in any interleaving, no two entries of the persisted index have the     *)
(* same id, and no two entries ever built have.                            *)
(***************************************************************************)
C13_UniqueIds ==
    /\ \A i, j \in 1..Len(PersistedIndex) :
          i # j => PersistedIndex[i].id # PersistedIndex[j].id
    /\ \A e1, e2 \in created : e1.id = e2.id => e1 = e2

\* two requests have each added an entry to the persisted index
C13_Witness ==
    /\ AllIdle
    /\ Len(PersistedIndex) = 2
    /\ {PersistedIndex[1].id, PersistedIndex[2].id} = appended

(***************************************************************************)
(* C14 Threshold boundary: the search done, a request whose best           *)
(* similarity is exactly 0.85 or more goes to hit verification and one     *)
(* whose best similarity is below 0.85 goes to generation; at exactly 0.85 *)
(* with the asset present and read, the request ends as a hit; below 0.85  *)
(* the request never prunes, and what it saves is the index it loaded      *)
(* followed by its own entry.                                              *)
(***************************************************************************)
AtBoundary(similarity) == 20 * similarity.num = 17 * similarity.den
Below(similarity) == 20 * similarity.num < 17 * similarity.den

C14_ThresholdBoundary ==
    [][\A p \in Procs :
         /\ (pc[p] = "load" /\ Moves(p) /\ ~Finishes(p)) =>
               /\ AtBoundary(frame'[p].max_similarity) => pc'[p] = "verify"
               /\ (~Below(frame'[p].max_similarity)) => pc'[p] = "verify"
               /\ Below(frame'[p].max_similarity) => pc'[p] = "generate"
         /\ (/\ pc[p] = "read" /\ Moves(p)
             /\ AtBoundary(frame[p].max_similarity)
             /\ EffectsAfter(p).fault_free) =>
               /\ Finishes(p)
               /\ last_call'.ret.cached
               /\ last_call'.effects.asset =
                     FileOf(frame[p].best_match.image_path)
         /\ (/\ pc[p] \in {"generate", "store", "append"} /\ Moves(p)
             /\ Below(frame[p].max_similarity)) =>
               /\ ~EffectsAfter(p).pruned
               /\ EffectsAfter(p).asset_reads = 0
               /\ (pc[p] = "append" /\ EffectsAfter(p).fault_free) =>
                     PersistedIndex' =
                        Append(frame[p].cache_metadata, NewEntry(frame[p]))
               /\ pc[p] # "append" => UNCHANGED metadata_file
      ]_vars

\* "throne dark" was served from the entry of "throne", at exactly 17/20
C14_Witness ==
    /\ AllIdle
    /\ last_call.ret.cached
    /\ last_call.text = "throne dark"
    /\ Len(PersistedIndex) = 1
    /\ PersistedIndex[1].text = "throne"
    /\ last_call.effects.asset = PersistedIndex[1].id
    /\ AtBoundary(cosine_similarity(EmbeddingOf(last_call.text),
                                    PersistedIndex[1].embedding))

(***************************************************************************)
(* C15 Deterministic tie-break: the best match of a search is the first    *)
(* entry of the loaded index whose similarity to the query is the maximum  *)
(* (every earlier entry is strictly less similar, no entry is more         *)
(* similar); the request keeps that best match, serves the asset of that   *)
(* entry on a hit, and removes that entry and no other when it prunes.     *)
(***************************************************************************)
SimilarityTo(p, entry) ==
    cosine_similarity(frame[p].query_embedding, entry.embedding)

FirstMaximum(p, index, i) ==
    /\ \A j \in 1..Len(index) :
          ~Gt(SimilarityTo(p, index[j]), SimilarityTo(p, index[i]))
    /\ \A j \in 1..(i - 1) :
          Gt(SimilarityTo(p, index[i]), SimilarityTo(p, index[j]))

C15_TieBreak ==
    [][\A p \in Procs :
         /\ (/\ pc[p] = "load" /\ Moves(p) /\ ~Finishes(p)
             /\ frame'[p].best_match # NoneEntry) =>
               \E i \in 1..Len(frame'[p].cache_metadata) :
                  /\ frame'[p].cache_metadata[i] = frame'[p].best_match
                  /\ FirstMaximum(p, frame'[p].cache_metadata, i)
                  /\ ~Gt(frame'[p].max_similarity,
                         SimilarityTo(p, frame'[p].best_match))
                  /\ ~Gt(SimilarityTo(p, frame'[p].best_match),
                         frame'[p].max_similarity)
         /\ (pc[p] \in {"verify", "read", "prune"}
               /\ Moves(p) /\ ~Finishes(p)) =>
               frame'[p].best_match = frame[p].best_match
         /\ (pc[p] = "read" /\ Finishes(p)) =>
               last_call'.effects.asset =
                  FileOf(frame[p].best_match.image_path)
         /\ (pc[p] = "prune" /\ Moves(p)
               /\ frame'[p].effects.fault_free) =>
               /\ ~InIndex(frame[p].best_match, PersistedIndex')
               /\ Len(PersistedIndex') = Len(frame[p].cache_metadata) - 1
               /\ \A i \in 1..Len(frame[p].cache_metadata) :
                     frame[p].cache_metadata[i] # frame[p].best_match =>
                        InIndex(frame[p].cache_metadata[i], PersistedIndex')
      ]_vars

\* two entries tie for the query and the request was served the first
C15_Witness ==
    /\ AllIdle
    /\ last_call.ret.cached
    /\ Len(PersistedIndex) = 2
    /\ PersistedIndex[1].embedding = PersistedIndex[2].embedding
    /\ PersistedIndex[1].text = last_call.text
    /\ last_call.effects.asset = PersistedIndex[1].id
    /\ cache_dir[PersistedIndex[2].id].exists

(***************************************************************************)
(* C16 No retry after drift repair: a request that finds the asset of its  *)
(* best match missing prunes and goes straight to generation; from then on *)
(* it searches no more, verifies and reads no asset, is never served from  *)
(* the cache and prunes nothing else: every other entry it loaded is in    *)
(* the index it saves, also one at or above the threshold whose asset is   *)
(* present.                                                                *)
(***************************************************************************)
OthersKept(p, index) ==
    \A i \in 1..Len(frame[p].cache_metadata) :
        frame[p].cache_metadata[i].id # frame[p].best_match.id =>
           InIndex(frame[p].cache_metadata[i], index)

C16_NoRetryAfterRepair ==
    [][\A p \in Procs :
         /\ (pc[p] = "prune" /\ Moves(p)) =>
               /\ pc'[p] = "generate"
               /\ frame'[p].effects.asset_reads = 0
               /\ frame'[p].effects.fault_free =>
                     /\ OthersKept(p, PersistedIndex')
                     /\ Len(PersistedIndex') =
                           Len(frame[p].cache_metadata) - 1
         /\ (frame[p].effects.pruned /\ Moves(p)) =>
               /\ pc[p] \in {"generate", "store", "append"}
               /\ pc'[p] \in {"store", "append", "idle"}
               /\ EffectsAfter(p).asset_reads = 0
               /\ EffectsAfter(p).generate = 1
               /\ Finishes(p) => ~last_call'.ret.cached
               /\ pc[p] # "append" => UNCHANGED metadata_file
               /\ (pc[p] = "append" /\ EffectsAfter(p).fault_free) =>
                     /\ OthersKept(p, PersistedIndex')
                     /\ Len(PersistedIndex') =
                           Len(frame[p].cache_metadata) + 1
      ]_vars

\* a request pruned its best match and generated, while another entry at
\* or above the threshold for its query, asset present, stays in the index
C16_Witness ==
    /\ AllIdle
    /\ last_call.effects.pruned
    /\ last_call.effects.fault_free
    /\ last_call.effects.generate = 1
    /\ ~last_call.ret.cached
    /\ \E i \in 1..Len(PersistedIndex) :
          /\ PersistedIndex[i].id # last_call.effects.asset
          /\ AtThreshold(cosine_similarity(EmbeddingOf(last_call.text),
                                           PersistedIndex[i].embedding))
          /\ cache_dir[PersistedIndex[i].id].exists

(***************************************************************************)
(* C17 Read failure triggers drift repair: when the read of the winning    *)
(* entry's asset fails (the file is gone since the existence check, or it  *)
(* cannot be read), the request goes to the prune, or the entry is gone    *)
(* from the persisted index, before generation starts.                     *)
(***************************************************************************)
ReadFailed(p) == pc[p] = "read" /\ Moves(p) /\ pc'[p] = "generate"

C17_ReadFailureRepairs ==
    [][\A p \in Procs :
         ReadFailed(p) =>
            ~(\E i \in 1..Len(PersistedIndex') :
                 PersistedIndex'[i].id = frame[p].best_match.id)
      ]_vars

\* nor is the entry removed later by that request: it is still there when
\* the request has saved its own entry
C17_RepairedByTheEnd ==
    [][\A p \in Procs :
         (/\ pc[p] = "append" /\ Moves(p)
          /\ frame[p].effects.asset_reads = 1) =>
            ~(\E i \in 1..Len(PersistedIndex') :
                 PersistedIndex'[i].id = frame[p].best_match.id)
      ]_vars

(***************************************************************************)
(* C18 Embedded-data round trip: a string made of a generation result,     *)
(* stored with save_image_to_cache and read back with                      *)
(* load_image_from_cache, comes back equal to itself, scheme prefix and    *)
(* payload, and the bytes stored are the decoded payload.                  *)
(***************************************************************************)
C18_RoundTrip ==
    trip.stage = "loaded" =>
        /\ trip.loaded = trip.s
        /\ trip.bytes = b64decode(trip.s.body).bytes

\* the payload alone does not come back either when it is not in canonical
\* form (a line break, padding bits that are not zero)
C18_PayloadRoundTrip ==
    trip.stage = "loaded" => trip.loaded.body = trip.s.body

\* what does hold: the bytes stored are the decoded payload, and the string
\* read back decodes to the same bytes
C18_BytesRoundTrip ==
    trip.stage = "loaded" =>
        /\ trip.bytes = b64decode(trip.s.body).bytes
        /\ b64decode(trip.loaded.body) = [ok |-> TRUE, bytes |-> trip.bytes]

(***************************************************************************)
(* C19 Asset write failure is fatal for the request: when the image was    *)
(* generated and save_image_to_cache does not write the file, the request  *)
(* ends there with the error raised, the endpoint answers with the error   *)
(* and no image, and nothing is appended: the index document is not        *)
(* written and no entry is built.                                          *)
(***************************************************************************)
StoreFailed(p) ==
    /\ pc[p] = "store"
    /\ Moves(p)
    /\ ~cache_dir'[uuid_count'].exists

C19_AssetWriteFailureFatal ==
    [][\A p \in Procs :
         /\ (pc[p] = "store" /\ Moves(p)) =>
               /\ frame[p].effects.generated
               /\ uuid_count' = uuid_count + 1
         /\ StoreFailed(p) =>
               /\ Finishes(p)
               /\ last_call'.ret.kind = "raise"
               /\ last_call'.ret.error = "Failed to save image to cache"
               /\ last_call'.ret.image_url = NoneUrl
               /\ ~ImageSet(last_call'.response)
               /\ ErrorSet(last_call'.response)
               /\ last_call'.effects.index_saves =
                     (IF last_call'.effects.pruned THEN 1 ELSE 0)
               /\ UNCHANGED <<metadata_file, created, appended>>
      ]_vars

\* a request generated its image and ended in the error of the asset write
C19_Witness ==
    /\ last_call.ret.kind = "raise"
    /\ last_call.ret.error = "Failed to save image to cache"
    /\ last_call.effects.generated
    /\ last_call.effects.asset_writes = 1
    /\ last_call.effects.index_saves = 0
    /\ ~ImageSet(last_call.response)

IsZeroVector(v) == \A i \in 1..Len(v) : v[i] = 0

C21_ZeroMagnitudeGuard ==
    sim.stage = "done" =>
       /\ (/\ Len(sim.vec1) = Len(sim.vec2)
           /\ IsZeroVector(sim.vec1) \/ IsZeroVector(sim.vec2)) =>
              /\ sim.kind = "float"
              /\ sim.value = Zero
       /\ sim.kind = "float" => sim.value.den # 0

\* similarity(v, zeroVector) was computed for a v that is not zero
C21_Witness ==
    /\ sim.stage = "done"
    /\ sim.vec1 = <<3, 4>>
    /\ sim.vec2 = <<0, 0>>
    /\ sim.kind = "float"
    /\ sim.value = Zero

(***************************************************************************)
(* C22 Input validation of similarity: cosine_similarity raises whenever   *)
(* its two vectors differ in length or have length zero, and returns no    *)
(* number for such inputs.                                                 *)
(***************************************************************************)
C22_InputValidation ==
    (/\ sim.stage = "done"
     /\ \/ Len(sim.vec1) # Len(sim.vec2)
        \/ Len(sim.vec1) = 0
        \/ Len(sim.vec2) = 0) =>
        sim.kind = "ValueError"

\* the part of it that holds: vectors of different lengths raise
C22_MismatchRaises ==
    (sim.stage = "done" /\ Len(sim.vec1) # Len(sim.vec2)) =>
        sim.kind = "ValueError"

(***************************************************************************)
(* C23 No lock across network I/O: while a request is inside a call of the *)
(* embedding provider or of the image provider, every other request that   *)
(* is under way has its next step enabled (load and search, verify, read,  *)
(* prune, store, save), a new request can start, and the steps the others  *)
(* take leave the suspended request where it is: they run to their end     *)
(* without it.                                                             *)
(***************************************************************************)
Suspended(p) == pc[p] \in {"embed", "fallback", "generate"}

C23_NoLockAcrossNetworkIO ==
    /\ [](\A p \in Procs : \A q \in Procs \ {p} :
             Suspended(p) =>
                /\ pc[q] # "idle" => ENABLED Step(q)
                /\ (pc[q] = "idle" /\ calls < MaxCalls) =>
                      ENABLED Start(q, "hall", ""))
    /\ [][\A p \in Procs : \A q \in Procs \ {p} :
             (Suspended(p) /\ Moves(q)) =>
                /\ pc'[p] = pc[p]
                /\ frame'[p] = frame[p]]_vars

\* request 1 loaded the empty index and is in the image provider; another
\* request has saved its entry since and has ended
C23_Witness ==
    /\ pc[1] = "generate"
    /\ frame[1].effects.fault_free
    /\ frame[1].cache_metadata = <<>>
    /\ Ended
    /\ last_call.ret.kind = "dict"
    /\ last_call.effects.index_saves = 1
    /\ Len(PersistedIndex) = 1

(***************************************************************************)
(* C24 Asset before index: every entry of the persisted index names an     *)
(* asset file that exists, unless that file was deleted from outside the   *)
(* program: with no file deleted, every entry has its file, in every       *)
(* reachable state of concurrent requests; and the request that appends    *)
(* an entry has written the entry's file before the step that saves it.    *)
(***************************************************************************)
HasAsset(e) ==
    \/ cache_dir[FileOf(e.image_path)].exists
    \/ FileOf(e.image_path) \in deleted

C24_AssetBeforeIndex ==
    /\ [](\A i \in 1..Len(PersistedIndex) : HasAsset(PersistedIndex[i]))
    /\ [][\A p \in Procs :
             (pc[p] = "append" /\ Moves(p)) =>
                /\ \/ cache_dir[frame[p].image_id].exists
                   \/ frame[p].image_id \in deleted
                /\ \A i \in 1..Len(PersistedIndex') :
                      HasAsset(PersistedIndex'[i])
          ]_vars

\* two concurrent misses have both been saved and no file was deleted:
\* two entries, two files
C24_Witness ==
    /\ deleted = {}
    /\ Len(PersistedIndex) = 2
    /\ PersistedIndex[1].id # PersistedIndex[2].id
    /\ \A i \in 1..2 : cache_dir[PersistedIndex[i].id].exists
    /\ calls = 2

(***************************************************************************)
(* C25 Prune precedes generation: the drift-repair step saves the index    *)
(* before the request has called the image provider; its save meeting no   *)
(* I/O error, the persisted index is then the loaded index without the     *)
(* winning entry, the other entries in their order.  The call of the       *)
(* provider that follows leaves the index document alone, so when it fails *)
(* the request ends with the entry still removed from the persisted index. *)
(***************************************************************************)
WithoutWinner(p) ==
    SelectSeq(frame[p].cache_metadata, LAMBDA e : e # frame[p].best_match)

C25_PrunePrecedesGeneration ==
    [][\A p \in Procs :
         /\ (pc[p] = "prune" /\ Moves(p)) =>
               /\ pc'[p] = "generate"
               /\ frame'[p].effects.generate = 0
               /\ frame'[p].effects.index_saves = 1
               /\ frame'[p].cache_metadata = WithoutWinner(p)
               /\ frame'[p].effects.fault_free =>
                     PersistedIndex' = WithoutWinner(p)
         /\ (pc[p] = "generate" /\ Moves(p) /\ frame[p].effects.pruned) =>
               /\ frame[p].effects.generate = 0
               /\ UNCHANGED metadata_file
               /\ (Finishes(p) /\ frame[p].effects.fault_free) =>
                     /\ last_call'.ret.kind = "raise"
                     /\ PersistedIndex' = frame[p].cache_metadata
                     /\ ~InIndex(frame[p].best_match, PersistedIndex')
      ]_vars

\* of two entries the stale one was pruned, the generation then failed:
\* the index holds the other entry alone
C25_Witness ==
    /\ Ended
    /\ last_call.effects.pruned
    /\ last_call.ret.kind = "raise"
    /\ last_call.effects.generate = 1
    /\ ~last_call.effects.generated
    /\ Len(PersistedIndex) = 1
    /\ PersistedIndex[1].text = "hall"
    /\ calls = 3

(***************************************************************************)
(* C26 Pruned entries stay pruned: an entry that a drift repair has taken  *)
(* out of the persisted index is never in the persisted index again,       *)
(* whatever concurrent requests that loaded the index before the prune     *)
(* save after it.                                                          *)
(***************************************************************************)
C26_PrunedStayPruned ==
    \A e \in pruned : ~InIndex(e, PersistedIndex)

(***************************************************************************)
(* C27 Query text: the text a request embeds, and stores as the text of    *)
(* the entry it appends, is the description alone when the style notes     *)
(* are empty and the description, one space, the style notes otherwise;    *)
(* it is not the prompt sent to the image provider, which joins them with  *)
(* a comma and ends in the fixed style suffix.                             *)
(***************************************************************************)
QueryText(f) ==
    IF f.style_notes = "" THEN f.art_description
    ELSE f.art_description \o " " \o f.style_notes

C27_QueryText ==
    [][\A p \in Procs :
         /\ (pc[p] = "embed" /\ pc'[p] = "load") =>
               frame'[p].query_embedding = EmbeddingOf(QueryText(frame[p]))
         /\ (pc[p] = "append" /\ Moves(p)) =>
               \E e \in created' :
                  /\ e.id = frame[p].image_id
                  /\ e.text = QueryText(frame[p])
                  /\ e.embedding = EmbeddingOf(QueryText(frame[p]))
                  /\ e.text # frame[p].prompt
                  /\ Len(e.text) < Len(frame[p].prompt)
                  /\ EffectsAfter(p).fault_free => InIndex(e, PersistedIndex')
      ]_vars

\* an entry was saved for a request with style notes
C27_Witness ==
    /\ Ended
    /\ last_call.text = "throne dark"
    /\ last_call.effects.index_saves = 1
    /\ \E i \in 1..Len(PersistedIndex) :
          /\ PersistedIndex[i].text = "throne dark"
          /\ PersistedIndex[i].embedding = EmbeddingOf("throne dark")

(***************************************************************************)
(* Vocabulary of the game properties                                       *)
(***************************************************************************)
\* this step answers a game call; a continue_game call that names the
\* session
Called == game'.answer.tick # game.answer.tick
Continued ==
    Called /\ game.session.exists /\ game'.answer.session_id = "valid"

TurnNumber == game.session.game_state.turn_number
PreviousTurns == game.session.game_state.previous_turns

(***************************************************************************)
(* C28 Bounded game length: at most 15 continue_game calls of a session    *)
(* succeed; the call made at turn_number 14 is always answered with        *)
(* game_over = true, game_status victory or defeat and no choices, the     *)
(* narrative provider is not consulted for it, and it leaves the session   *)
(* with a status that is not active.                                       *)
(***************************************************************************)
C28_BoundedGameLength ==
    /\ [](game.succeeded <= MaxTurns)
    /\ [][(/\ Continued
           /\ game.session.game_status = "active"
           /\ TurnNumber = MaxTurns - 1) =>
              /\ game'.answer.code = 200
              /\ game'.answer.game_over
              /\ game'.answer.game_status \in {"victory", "defeat"}
              /\ game'.answer.choices = 0
              /\ ~game'.answer.consulted
              /\ game'.session.game_status # "active"]_vars

\* the parts of it that hold: never more than 15 successes nor turns; the
\* call at turn 14 does not consult the provider, and when it is answered
\* with 200 it is the forced ending and ends the session
C28_AtMostFifteen ==
    /\ game.succeeded <= MaxTurns
    /\ game.succeeded <= TurnNumber
    /\ TurnNumber <= MaxTurns

C28_ForcedEnding ==
    [][(/\ Continued
        /\ game.session.game_status = "active"
        /\ TurnNumber = MaxTurns - 1) =>
           /\ ~game'.answer.consulted
           /\ game'.answer.code \in {200, 500}
           /\ game'.answer.code = 200 =>
                 /\ game'.answer.game_over
                 /\ game'.answer.game_status \in {"victory", "defeat"}
                 /\ game'.answer.choices = 0
                 /\ game'.session.game_status = game'.answer.game_status
           /\ game'.session # game.session =>
                 game'.session.game_status \in {"victory", "defeat"}]_vars

(***************************************************************************)
(* C29 Ended sessions are frozen: once the game_status of a session is     *)
(* not active, every continue_game call that names it is answered with     *)
(* 400, and no call changes its game_state, scene setting or status.       *)
(***************************************************************************)
C29_EndedSessionsFrozen ==
    [][(/\ Called
        /\ game.session.exists
        /\ game.session.game_status # "active") =>
           /\ game'.session = game.session
           /\ game'.succeeded = game.succeeded
           /\ ~game'.answer.consulted
           /\ game'.answer.session_id = "valid" => game'.answer.code = 400
      ]_vars

\* a call on a session the forced ending has closed was rejected
C29_Witness ==
    /\ game.session.exists
    /\ game.session.game_status = "defeat"
    /\ TurnNumber = MaxTurns
    /\ game.answer.session_id = "valid"
    /\ game.answer.code = 400

(***************************************************************************)
(* C30 Turn bookkeeping: in every stored game_state turn_number is the     *)
(* length of previous_turns; start_game stores 0 and the empty list; and   *)
(* every continue_game call answered with success has raised both by one,  *)
(* keeping the turns logged before, whatever the narrative provider        *)
(* answered, its failure included.                                         *)
(***************************************************************************)
C30_TurnBookkeeping ==
    /\ [](game.session.exists => TurnNumber = Len(PreviousTurns))
    /\ [][/\ (Called /\ ~game.session.exists /\ game'.session.exists) =>
                /\ TurnNumber' = 0
                /\ PreviousTurns' = <<>>
          /\ (Continued /\ game'.answer.code = 200) =>
                /\ TurnNumber' = TurnNumber + 1
                /\ Len(PreviousTurns') = Len(PreviousTurns) + 1
                /\ SubSeq(PreviousTurns', 1, Len(PreviousTurns)) =
                      PreviousTurns
                /\ PreviousTurns'[Len(PreviousTurns')] = TurnNumber
          ]_vars

\* three turns were made, the last one answered with success
C30_Witness ==
    /\ game.session.exists
    /\ TurnNumber = 3
    /\ PreviousTurns = <<0, 1, 2>>
    /\ game.answer.code = 200
    /\ game.answer.consulted
    /\ game.succeeded = 3

(***************************************************************************)
(* C31 Scan result: a search_cache call that returns has skipped every     *)
(* item without an embedding or with an empty one; over a list with no     *)
(* usable entry it returns (None, 0.0); the entry it returns, if any, is a *)
(* usable entry of the list whose similarity to the query is positive,     *)
(* never one at zero or below; when no usable entry has a positive         *)
(* similarity it returns (None, 0.0); otherwise it returns the maximum     *)
(* similarity over the usable entries and an entry of the list that has    *)
(* it.  The call raises, and returns nothing, exactly when the list has an *)
(* item that is not a dict or an embedding of another size than the        *)
(* query's.                                                                *)
(***************************************************************************)
Usable(item) == IsDict(item) /\ Get(item, "embedding") # <<>>

Malformed(query_embedding, item) ==
    \/ ~IsDict(item)
    \/ /\ Usable(item)
       /\ Len(item.embedding) # Len(query_embedding)

ScanSimilarity(i) ==
    cosine_similarity(scan.query_embedding, scan.cache_metadata[i].embedding)

UsableAt ==
    {i \in 1..Len(scan.cache_metadata) : Usable(scan.cache_metadata[i])}

PositiveAt == {i \in UsableAt : Gt(ScanSimilarity(i), Zero)}

C31_ScanResult ==
    /\ scan.stage \in {"raised", "returned"} =>
          (scan.stage = "raised" <=>
              \E i \in 1..Len(scan.cache_metadata) :
                 Malformed(scan.query_embedding, scan.cache_metadata[i]))
    /\ scan.stage = "returned" =>
          /\ UsableAt = {} =>
                scan.best_match = NoneEntry /\ scan.max_similarity = Zero
          /\ scan.best_match # NoneEntry =>
                \E i \in PositiveAt :
                   scan.cache_metadata[i] = scan.best_match
          /\ PositiveAt = {} =>
                scan.best_match = NoneEntry /\ scan.max_similarity = Zero
          /\ PositiveAt # {} =>
                \E i \in PositiveAt :
                   /\ scan.cache_metadata[i] = scan.best_match
                   /\ scan.max_similarity = ScanSimilarity(i)
                   /\ \A j \in UsableAt :
                         ~Gt(ScanSimilarity(j), scan.max_similarity)

\* a call returned an entry at 24/25 from a list that also holds a dict
\* without an embedding and an entry opposite to the query
C31_Witness ==
    /\ scan.stage = "returned"
    /\ Len(scan.cache_metadata) = 3
    /\ \E i \in 1..3 : ~Usable(scan.cache_metadata[i])
    /\ \E i \in UsableAt : Gt(Zero, ScanSimilarity(i))
    /\ scan.best_match # NoneEntry
    /\ scan.best_match.embedding = <<4, 3>>
    /\ scan.max_similarity = [num |-> 24, den |-> 25]

====
